---- MODULE Spec2Model ----
(***************************************************************************)
(* ConsentRight phase 1: the consultation pipeline of llm_handler.py       *)
(* (ConsultationLLM.process_symptoms: input validation, the retry loop     *)
(* around the LLM call, response parsing, the exception handler and the    *)
(* fallback recommendation), and the prompt of main.py (get_user_input)    *)
(* that feeds it.                                                          *)
(*                                                                         *)
(* Texts are TLA+ strings; a character is a string of length 1.  The       *)
(* model's alphabet is ASCII: letters, digits, blank, tab, newline and     *)
(* punctuation.                                                            *)
(***************************************************************************)
EXTENDS Integers, Sequences, FiniteSets, TLC

VARIABLES
    pc,               \* position of the consultation inside process_symptoms
    symptoms,         \* the argument of process_symptoms
    cleaned_symptoms, \* result of _validate_and_sanitize_input
    attempt,          \* loop index of _retry_with_backoff
    last_exception,   \* last_exception of _retry_with_backoff
    delays,           \* the arguments of time.sleep, in order
    call_log,         \* what each invocation of func (_execute_chain) did, in order
    requester,        \* how _retry_with_backoff ended
    response,         \* the raw text _retry_with_backoff returned
    caught,           \* str(e) of the exception caught at process_symptoms' handler
    parse_calls,      \* number of invocations of _parse_response
    fallback_calls,   \* number of invocations of fallback_recommendation
    outcome,          \* how process_symptoms ended
    interrupted_at,   \* where Ctrl+C arrived: "" (nowhere), "sleep" or "call"
    fb_input,         \* argument of a direct call of fallback_recommendation
    fb_result,        \* its result
    fb_seen,          \* argument and result of the direct call before that
    entry,            \* "direct": process_symptoms is called by a program (the test
                      \* runner); "cli": by main, with what get_user_input returned
    user_input,       \* get_user_input: the line read last, stripped
    attempt_count,    \* get_user_input: attempt_count
    validation_result, \* get_user_input: the last result of _validate_symptom_input
    val_input,        \* a text given to the three validators, called on their own
    val_main,         \* what main._validate_symptom_input returned for it
    val_module,       \* what validation.validate_symptom_input returned for it
    val_llm,          \* what ConsultationLLM._validate_and_sanitize_input did with it
    parse_input,      \* a raw response given to _parse_response, called on its own
    parse_result,     \* what _parse_response did with it
    rejected_run,     \* get_user_input: how many inputs in a row were rejected since
                      \* the examples were last shown (counted up to max_attempts)
    examples_shown,   \* get_user_input: the last iteration printed the examples
    exit_status,      \* << >> while the process runs, << n >> after it ended with n
    error_count,      \* main._error_count: << >> while main has no such attribute
    error_category,   \* the category _display_error_with_guidance showed last
    history,          \* how each consultation of main's loop ended, in order
    ui_result         \* ui.get_user_input: the last result of validate_symptom_input

vars == << pc, symptoms, cleaned_symptoms, attempt, last_exception, delays, call_log,
           requester, response, caught, parse_calls, fallback_calls, outcome,
           interrupted_at, fb_input, fb_result, fb_seen, entry, user_input, attempt_count,
           validation_result, val_input, val_main, val_module, val_llm, parse_input,
           parse_result, rejected_run, examples_shown, exit_status, error_count,
           error_category, history, ui_result >>

cli_vars == << user_input, attempt_count, validation_result, rejected_run, examples_shown,
               exit_status >>

\* the variables of main's loop
main_vars == << error_count, error_category, history >>

\* the variables of ui.get_user_input
ui_vars == << ui_result >>

pipeline_vars == << pc, symptoms, cleaned_symptoms, attempt, last_exception, delays,
                    call_log, requester, response, caught, parse_calls,
                    fallback_calls, outcome, interrupted_at >>

fallback_vars == << fb_input, fb_result, fb_seen >>

validator_vars == << val_input, val_main, val_module, val_llm >>

parser_vars == << parse_input, parse_result >>

\* the variables of the functions that are called on their own
unit_vars == << fallback_vars, validator_vars, parser_vars >>

(***************************************************************************)
(* Text primitives (Python str operations).                                *)
(***************************************************************************)
\* s[i-1:i]: the character at position i (from 1), empty outside the text
CharAt(s, i) == IF i >= 1 /\ i <= Len(s) THEN SubSeq(s, i, i) ELSE ""

\* Python: sub in s
Contains(s, sub) ==
    \E i \in 1 .. (Len(s) - Len(sub) + 1) : SubSeq(s, i, i + Len(sub) - 1) = sub

UpperChars == "ABCDEFGHIJKLMNOPQRSTUVWXYZ"
LowerChars == "abcdefghijklmnopqrstuvwxyz"
DigitChars == "0123456789"

IsUpper(c) == \E i \in 1 .. Len(UpperChars) : CharAt(UpperChars, i) = c
IsLower(c) == \E i \in 1 .. Len(LowerChars) : CharAt(LowerChars, i) = c
IsLetter(c) == IsUpper(c) \/ IsLower(c)
IsDigit(c) == \E i \in 1 .. Len(DigitChars) : CharAt(DigitChars, i) = c

\* str.strip() and the regex class \s
IsSpace(c) == c \in {" ", "\t", "\n", "\r", "\f"}

\* the regex class \w
IsWord(c) == IsLetter(c) \/ IsDigit(c) \/ c = "_"

lower_char(c) ==
    IF IsUpper(c)
    THEN CharAt(LowerChars, CHOOSE i \in 1 .. Len(UpperChars) : CharAt(UpperChars, i) = c)
    ELSE c

\* str.lower() of s[lo..hi], by halves
RECURSIVE lower_range(_, _, _)
lower_range(s, lo, hi) ==
    IF lo > hi THEN ""
    ELSE IF lo = hi THEN lower_char(CharAt(s, lo))
    ELSE LET mid == (lo + hi) \div 2
         IN  lower_range(s, lo, mid) \o lower_range(s, mid + 1, hi)

lower(s) == lower_range(s, 1, Len(s))

\* str.strip()
strip(s) ==
    IF \A i \in 1 .. Len(s) : IsSpace(CharAt(s, i)) THEN ""
    ELSE LET first == CHOOSE i \in 1 .. Len(s) :
                          /\ ~IsSpace(CharAt(s, i))
                          /\ \A j \in 1 .. (i - 1) : IsSpace(CharAt(s, j))
             last  == CHOOSE i \in 1 .. Len(s) :
                          /\ ~IsSpace(CharAt(s, i))
                          /\ \A j \in (i + 1) .. Len(s) : IsSpace(CharAt(s, j))
         IN  SubSeq(s, first, last)

\* str.find(c): index (from 1) of the first occurrence of c, 0 when absent (Python: -1)
find(s, c) ==
    IF Contains(s, c)
    THEN CHOOSE i \in 1 .. Len(s) :
            /\ SubSeq(s, i, i + Len(c) - 1) = c
            /\ \A j \in 1 .. (i - 1) : SubSeq(s, j, j + Len(c) - 1) # c
    ELSE 0

\* str.rfind(c): index (from 1) of the last occurrence of c, 0 when absent (Python: -1)
rfind(s, c) ==
    IF Contains(s, c)
    THEN CHOOSE i \in 1 .. Len(s) :
            /\ SubSeq(s, i, i + Len(c) - 1) = c
            /\ \A j \in (i + 1) .. Len(s) : SubSeq(s, j, j + Len(c) - 1) # c
    ELSE 0

\* re.sub(r'\s+', ' ', s) of s[lo..hi]: a whitespace character is dropped when the
\* character before it is whitespace, and becomes a blank otherwise
RECURSIVE collapse_range(_, _, _)
collapse_range(s, lo, hi) ==
    IF lo > hi THEN ""
    ELSE IF lo = hi
         THEN IF IsSpace(CharAt(s, lo))
              THEN IF lo > 1 /\ IsSpace(CharAt(s, lo - 1)) THEN "" ELSE " "
              ELSE CharAt(s, lo)
    ELSE LET mid == (lo + hi) \div 2
         IN  collapse_range(s, lo, mid) \o collapse_range(s, mid + 1, hi)

collapse_whitespace(s) == collapse_range(s, 1, Len(s))

(***************************************************************************)
(* ConsultationLLM._validate_and_sanitize_input                            *)
(***************************************************************************)
MaxSymptomLength == 2000
TruncatedLength == 1997
\* variant: one character less than the source's minimum is enough
MinSymptomLength_four == 5 - 1

MinSymptomLength == 5
MinCleanedLength == 3

\* re.search(r'(.)\1{n-1,}', s): n identical consecutive characters, none a newline
has_run(s, n) ==
    \E i \in 1 .. (Len(s) - n + 1) :
        /\ CharAt(s, i) # "\n"
        /\ \A j \in i .. (i + n - 1) : CharAt(s, j) = CharAt(s, i)

\* re.search(r'[a-zA-Z]', s)
has_letter(s) == \E i \in 1 .. Len(s) : IsLetter(CharAt(s, i))

\* the characters the class [^\w\s\.,;:!?\-\'\"()\[\]\/] does not match
IsKeptChar(c) ==
    \/ IsWord(c)
    \/ IsSpace(c)
    \/ c \in {".", ",", ";", ":", "!", "?", "-", "'", "\"", "(", ")", "[", "]", "/"}

\* re.sub(r'[^\w\s\.,;:!?\-\'\"()\[\]\/]', ' ', s) of s[lo..hi]
RECURSIVE sanitize_range(_, _, _)
sanitize_range(s, lo, hi) ==
    IF lo > hi THEN ""
    ELSE IF lo = hi THEN (IF IsKeptChar(CharAt(s, lo)) THEN CharAt(s, lo) ELSE " ")
    ELSE LET mid == (lo + hi) \div 2
         IN  sanitize_range(s, lo, mid) \o sanitize_range(s, mid + 1, hi)

sanitize_chars(s) == sanitize_range(s, 1, Len(s))

ValueError(msg, text) == [ok |-> FALSE, cleaned |-> text, error |-> msg]

_validate_and_sanitize_input(raw) ==
    IF raw = ""
    THEN ValueError("Symptoms must be provided as a non-empty string", "")
    ELSE
    LET stripped == strip(raw) IN
    IF Len(stripped) = 0
    THEN ValueError("Symptoms description cannot be empty", stripped)
    ELSE IF Len(stripped) < MinSymptomLength
    THEN ValueError("Please provide a more detailed description of your symptoms", stripped)
    ELSE
    LET cleaned == IF Len(stripped) > MaxSymptomLength
                   THEN SubSeq(stripped, 1, TruncatedLength) \o "..."
                   ELSE stripped
    IN
    IF has_run(cleaned, 6)
    THEN ValueError("Please avoid excessive repetition of characters in your symptom description",
                    cleaned)
    ELSE IF ~has_letter(cleaned)
    THEN ValueError("Please include descriptive text about your symptoms", cleaned)
    ELSE
    LET final == strip(collapse_whitespace(sanitize_chars(collapse_whitespace(cleaned)))) IN
    IF Len(final) < MinCleanedLength
    THEN ValueError("After cleaning, your symptom description is too short. Please provide more details.",
                    final)
    ELSE [ok |-> TRUE, cleaned |-> final, error |-> ""]

(***************************************************************************)
(* main._validate_symptom_input and main._has_excessive_repetition         *)
(***************************************************************************)
\* text.split(): a word starts where a non-blank follows a blank or the start
word_starts(text) ==
    { i \in 1 .. Len(text) :
        ~IsSpace(CharAt(text, i)) /\ (i = 1 \/ IsSpace(CharAt(text, i - 1))) }

\* the word of text.split() that starts at position i
word_at(text, i) ==
    LET stop == CHOOSE j \in i .. Len(text) :
                    /\ \A k \in i .. j : ~IsSpace(CharAt(text, k))
                    /\ (j = Len(text) \/ IsSpace(CharAt(text, j + 1)))
    IN  SubSeq(text, i, stop)

MaxWordRepeats == 10
MinCountedWordLength == 2

_has_excessive_repetition(text) ==
    \/ has_run(text, 5)
    \/ LET lowered == lower(text)
           starts  == word_starts(lowered)
       IN  \E i \in starts :
              /\ Len(word_at(lowered, i)) > MinCountedWordLength
              /\ Cardinality({ j \in starts : word_at(lowered, j) = word_at(lowered, i) })
                    > MaxWordRepeats

\* variant: no character is refused
IsAllowedChar_any(c) == TRUE

\* the characters of [a-zA-Z0-9\s\.,;:!?\-\'\"()\[\]\/\+\*&%$#@]
IsAllowedChar(c) ==
    \/ IsLetter(c)
    \/ IsDigit(c)
    \/ IsSpace(c)
    \/ c \in {".", ",", ";", ":", "!", "?", "-", "'", "\"", "(", ")", "[", "]", "/",
              "+", "*", "&", "%", "$", "#", "@"}

Invalid(type, msg) ==
    [valid |-> FALSE, cleaned_input |-> "", error_message |-> msg, error_type |-> type]

_validate_symptom_input(raw) ==
    IF raw = "" \/ Len(strip(raw)) = 0
    THEN Invalid("empty", "Please enter a description of your symptoms.")
    ELSE
    LET cleaned == strip(raw) IN
    IF Len(cleaned) < MinSymptomLength
    THEN Invalid("too_short", "Please provide a more detailed description of your symptoms (at least 5 characters).")
    ELSE IF Len(cleaned) > MaxSymptomLength
    THEN Invalid("too_long", "Symptom description is too long. Please keep it under 2000 characters.")
    ELSE IF _has_excessive_repetition(cleaned)
    THEN Invalid("repeated_characters", "Please avoid excessive repetition of characters.")
    ELSE IF \E i \in 1 .. Len(cleaned) : ~IsAllowedChar(CharAt(cleaned, i))
    THEN Invalid("invalid_characters", "Please use only standard characters (letters, numbers, and basic punctuation).")
    ELSE
    LET collapsed == collapse_whitespace(cleaned) IN
    IF ~has_letter(collapsed)
    THEN Invalid("no_meaningful_content", "Please include descriptive text about your symptoms.")
    ELSE [valid |-> TRUE, cleaned_input |-> collapsed, error_message |-> "",
          error_type |-> ""]

(***************************************************************************)
(* validation.validate_symptom_input and validation.has_excessive_repetition *)
(***************************************************************************)
has_excessive_repetition(text) ==
    \/ has_run(text, 5)
    \/ LET lowered == lower(text)
           starts  == word_starts(lowered)
       IN  \E i \in starts :
              /\ Len(word_at(lowered, i)) > MinCountedWordLength
              /\ Cardinality({ j \in starts : word_at(lowered, j) = word_at(lowered, i) })
                    > MaxWordRepeats

\* the characters of [a-zA-Z0-9\s\.,;:!\-\'"()\[\]/+*&%$#@]
IsStandardChar(c) ==
    \/ IsLetter(c)
    \/ IsDigit(c)
    \/ IsSpace(c)
    \/ c \in {".", ",", ";", ":", "!", "-", "'", "\"", "(", ")", "[", "]", "/",
              "+", "*", "&", "%", "$", "#", "@"}

Rejected(msg) == [valid |-> FALSE, cleaned_input |-> "", error_message |-> msg]

\* variant: the character check comes before the repetition check
validate_symptom_input_characters_first(raw) ==
    IF raw = "" \/ Len(strip(raw)) = 0
    THEN Rejected("Please enter a description of your symptoms.")
    ELSE
    LET cleaned == strip(raw) IN
    IF Len(cleaned) < MinSymptomLength
    THEN Rejected("Please provide a more detailed description (at least 5 characters).")
    ELSE IF Len(cleaned) > MaxSymptomLength
    THEN Rejected("Description is too long. Keep it under 2000 characters.")
    ELSE IF \E i \in 1 .. Len(cleaned) : ~IsStandardChar(CharAt(cleaned, i))
    THEN Rejected("Use only standard characters.")
    ELSE IF has_excessive_repetition(cleaned)
    THEN Rejected("Please avoid excessive repetition.")
    ELSE
    LET collapsed == collapse_whitespace(cleaned) IN
    IF ~has_letter(collapsed)
    THEN Rejected("Include descriptive text about your symptoms.")
    ELSE [valid |-> TRUE, cleaned_input |-> collapsed, error_message |-> ""]

validate_symptom_input(raw) ==
    IF raw = "" \/ Len(strip(raw)) = 0
    THEN Rejected("Please enter a description of your symptoms.")
    ELSE
    LET cleaned == strip(raw) IN
    IF Len(cleaned) < MinSymptomLength
    THEN Rejected("Please provide a more detailed description (at least 5 characters).")
    ELSE IF Len(cleaned) > MaxSymptomLength
    THEN Rejected("Description is too long. Keep it under 2000 characters.")
    ELSE IF has_excessive_repetition(cleaned)
    THEN Rejected("Please avoid excessive repetition.")
    ELSE IF \E i \in 1 .. Len(cleaned) : ~IsStandardChar(CharAt(cleaned, i))
    THEN Rejected("Use only standard characters.")
    ELSE
    LET collapsed == collapse_whitespace(cleaned) IN
    IF ~has_letter(collapsed)
    THEN Rejected("Include descriptive text about your symptoms.")
    ELSE [valid |-> TRUE, cleaned_input |-> collapsed, error_message |-> ""]

(***************************************************************************)
(* ConsultationLLM._should_retry_error                                     *)
(***************************************************************************)
retryable_errors ==
    << "timeout", "connection", "network", "rate limit", "quota exceeded",
       "service unavailable", "internal server error", "bad gateway", "gateway timeout" >>

non_retryable_errors ==
    << "authentication", "unauthorized", "invalid api key", "forbidden", "access denied" >>

\* any(marker in text for marker in markers)
ContainsAny(text, markers) == \E i \in DOMAIN markers : Contains(text, markers[i])

\* variant: an error without any marker is not retried
_should_retry_error_unknown_aborts(error) ==
    LET error_str == lower(error) IN
    IF ContainsAny(error_str, retryable_errors) THEN TRUE
    ELSE IF ContainsAny(error_str, non_retryable_errors) THEN FALSE
    ELSE FALSE

_should_retry_error(error) ==
    LET error_str == lower(error) IN
    IF ContainsAny(error_str, retryable_errors) THEN TRUE
    ELSE IF ContainsAny(error_str, non_retryable_errors) THEN FALSE
    ELSE TRUE

(***************************************************************************)
(* ConsultationLLM.fallback_recommendation and _assess_basic_urgency       *)
(***************************************************************************)
high_urgency_keywords ==
    << "chest pain", "difficulty breathing", "shortness of breath",
       "severe pain", "bleeding", "unconscious", "seizure",
       "stroke", "heart attack", "emergency", "severe headache",
       "high fever", "vomiting blood", "severe abdominal pain" >>

low_urgency_keywords ==
    << "mild", "occasional", "minor", "slight", "small rash",
       "dry skin", "minor headache", "light cough" >>

\* variant: a text without any keyword gets no urgency level
_assess_basic_urgency_no_default(text) ==
    IF text = "" THEN "Unknown"
    ELSE IF ContainsAny(lower(text), high_urgency_keywords) THEN "High"
    ELSE IF ContainsAny(lower(text), low_urgency_keywords) THEN "Low"
    ELSE "Unknown"

\* variant: the low-urgency keywords are looked for first
_assess_basic_urgency_low_first(text) ==
    IF text = "" THEN "Medium"
    ELSE IF ContainsAny(lower(text), low_urgency_keywords) THEN "Low"
    ELSE IF ContainsAny(lower(text), high_urgency_keywords) THEN "High"
    ELSE "Medium"

_assess_basic_urgency(text) ==
    IF text = "" THEN "Medium"
    ELSE LET symptoms_lower == lower(text) IN
         IF ContainsAny(symptoms_lower, high_urgency_keywords) THEN "High"
         ELSE IF ContainsAny(symptoms_lower, low_urgency_keywords) THEN "Low"
         ELSE "Medium"

fallback_recommendation(text) ==
    [ specialist |-> "General Physician",
      reasoning |-> "Unable to process symptoms due to technical issues. A general physician can provide initial evaluation and refer you to the appropriate specialist if needed.",
      urgency |-> _assess_basic_urgency(text),
      alternative |-> "Emergency Medicine (if symptoms are severe or life-threatening)",
      additional_notes |-> "Please seek immediate medical attention if you experience severe symptoms such as chest pain, difficulty breathing, severe bleeding, or loss of consciousness." ]

(***************************************************************************)
(* json.loads, as _parse_response uses it.  Domain of the model: texts     *)
(* whose values, where the text is well formed, are JSON strings (the      *)
(* prompt asks for an object of five string fields); escapes other than    *)
(* \" \\ \/ \n \t \r are outside it.                                       *)
(***************************************************************************)
\* str(n) for a natural number
RECURSIVE int_to_str(_)
int_to_str(n) ==
    IF n < 10 THEN CharAt(DigitChars, n + 1)
    ELSE int_to_str(n \div 10) \o CharAt(DigitChars, (n % 10) + 1)

\* JSONDecodeError.__str__: msg, then line, column and offset of the error
\* (pos is the 0-based offset)
JSONDecodeError(msg, doc, pos) ==
    LET newlines == { i \in 1 .. pos : CharAt(doc, i) = "\n" }
        lineno   == Cardinality(newlines) + 1
        lastnl   == IF newlines = {} THEN 0
                    ELSE CHOOSE i \in newlines : \A j \in newlines : j <= i
        colno    == pos - lastnl + 1
    IN  [ok |-> FALSE, data |-> [k \in {} |-> ""], next |-> 0, text |-> "",
         error |-> msg \o ": line " \o int_to_str(lineno) \o " column " \o int_to_str(colno)
                       \o " (char " \o int_to_str(pos) \o ")"]

IsJsonSpace(c) == c \in {" ", "\t", "\n", "\r"}

\* WHITESPACE.match(s, i).end(): the first position at or after i that holds no
\* JSON whitespace (Len(s) + 1 when there is none)
skip_ws(s, i) ==
    CHOOSE j \in i .. (Len(s) + 1) :
        /\ \A k \in i .. (j - 1) : IsJsonSpace(CharAt(s, k))
        /\ (j = Len(s) + 1 \/ ~IsJsonSpace(CharAt(s, j)))

unescape(c) ==
    CASE c = "n" -> "\n"
      [] c = "t" -> "\t"
      [] c = "r" -> "\r"
      [] OTHER   -> c

JsonString(text, next) ==
    [ok |-> TRUE, data |-> [k \in {} |-> ""], next |-> next, text |-> text, error |-> ""]

JsonObject(pairs, next) ==
    [ok |-> TRUE, data |-> pairs, next |-> next, text |-> "", error |-> ""]

\* scanstring (strict): i is the position after the opening quote, begin the
\* position of the opening quote, acc the characters read so far
RECURSIVE scanstring(_, _, _, _)
scanstring(s, i, begin, acc) ==
    IF i > Len(s)
    THEN JSONDecodeError("Unterminated string starting at", s, begin - 1)
    ELSE IF CharAt(s, i) = "\"" THEN JsonString(acc, i + 1)
    ELSE IF CharAt(s, i) = "\\"
    THEN IF i + 1 > Len(s)
         THEN JSONDecodeError("Unterminated string starting at", s, begin - 1)
         ELSE IF CharAt(s, i + 1) \in {"\"", "\\", "/", "n", "t", "r"}
         THEN scanstring(s, i + 2, begin, acc \o unescape(CharAt(s, i + 1)))
         ELSE JSONDecodeError("Invalid \\escape", s, i - 1)
    ELSE IF CharAt(s, i) \in {"\n", "\t", "\r", "\f"}
    THEN JSONDecodeError("Invalid control character at", s, i - 1)
    ELSE scanstring(s, i + 1, begin, acc \o CharAt(s, i))

\* dict[key] = value
dict_set(d, key, value) ==
    [k \in (DOMAIN d) \cup {key} |-> IF k = key THEN value ELSE d[k]]

\* the loop of JSONObject, one member per round: i is the position after the
\* opening quote of a key, pairs the members read so far
RECURSIVE JSONObject_loop(_, _, _)

\* after "key": value, ... : the next key, or the end of the object
JSONObject_next(s, pairs, sep) ==
    IF CharAt(s, sep) = "}" THEN JsonObject(pairs, sep + 1)
    ELSE IF CharAt(s, sep) # ","
    THEN JSONDecodeError("Expecting ',' delimiter", s, sep - 1)
    ELSE IF CharAt(s, skip_ws(s, sep + 1)) # "\""
    THEN JSONDecodeError("Expecting property name enclosed in double quotes", s,
                         skip_ws(s, sep + 1) - 1)
    ELSE JSONObject_loop(s, skip_ws(s, sep + 1) + 1, pairs)

\* the value of the member named key (a JSON string), from position vstart
JSONObject_value(s, pairs, key, vstart) ==
    IF CharAt(s, vstart) # "\""
    THEN JSONDecodeError("Expecting value", s, vstart - 1)
    ELSE \* value == the string that starts at vstart
         LET value == scanstring(s, vstart + 1, vstart, "") IN
         IF ~value.ok THEN value
         ELSE JSONObject_next(s, dict_set(pairs, key, value.text), skip_ws(s, value.next))

\* the colon after a key
JSONObject_colon(s, pairs, key, colon) ==
    IF CharAt(s, colon) # ":"
    THEN JSONDecodeError("Expecting ':' delimiter", s, colon - 1)
    ELSE JSONObject_value(s, pairs, key, skip_ws(s, colon + 1))

JSONObject_loop(s, i, pairs) ==
    LET key == scanstring(s, i, i - 1, "") IN
    IF ~key.ok THEN key
    ELSE JSONObject_colon(s, pairs, key.text,
                          IF CharAt(s, key.next) = ":" THEN key.next ELSE skip_ws(s, key.next))

\* JSONObject: i is the position after the opening brace
JSONObject(s, i) ==
    IF CharAt(s, skip_ws(s, i)) = "}" THEN JsonObject([k \in {} |-> ""], skip_ws(s, i) + 1)
    ELSE IF CharAt(s, skip_ws(s, i)) # "\""
    THEN JSONDecodeError("Expecting property name enclosed in double quotes", s,
                         skip_ws(s, i) - 1)
    ELSE JSONObject_loop(s, skip_ws(s, i) + 1, [k \in {} |-> ""])

\* the end of json.loads: nothing but whitespace may follow the object
json_end(s, obj) ==
    IF ~obj.ok THEN obj
    ELSE IF skip_ws(s, obj.next) # Len(s) + 1
    THEN JSONDecodeError("Extra data", s, skip_ws(s, obj.next) - 1)
    ELSE obj

\* json.loads(s) for a text that is empty or starts with an opening brace
json_loads(s) ==
    IF CharAt(s, skip_ws(s, 1)) # "{"
    THEN JSONDecodeError("Expecting value", s, skip_ws(s, 1) - 1)
    ELSE json_end(s, JSONObject(s, skip_ws(s, 1) + 1))

(***************************************************************************)
(* ConsultationLLM._parse_response                                         *)
(***************************************************************************)
required_fields == << "specialist", "reasoning", "urgency" >>
optional_fields == << "alternative", "additional_notes" >>
valid_urgency == << "High", "Medium", "Low" >>

InSeq(x, seq) == \E i \in DOMAIN seq : seq[i] = x

\* variant: an empty value counts as present
missing_only(parsed_data, field) == field \notin DOMAIN parsed_data

\* field not in parsed_data or not parsed_data[field]
missing_or_empty(parsed_data, field) ==
    \/ field \notin DOMAIN parsed_data
    \/ parsed_data[field] = ""

\* the first required field that is missing or empty, "" when there is none
first_missing_field(parsed_data) ==
    LET missing == { i \in DOMAIN required_fields :
                        missing_or_empty(parsed_data, required_fields[i]) }
    IN  IF missing = {} THEN ""
        ELSE required_fields[CHOOSE i \in missing : \A j \in missing : i <= j]

\* variant: the urgency is returned as it came
coerce_urgency_keep(parsed_data) == parsed_data

\* variant: the urgency is Medium whatever came
coerce_urgency_always(parsed_data) == dict_set(parsed_data, "urgency", "Medium")

\* parsed_data['urgency'] = 'Medium' unless it is a valid urgency
coerce_urgency(parsed_data) ==
    IF InSeq(parsed_data["urgency"], valid_urgency)
    THEN parsed_data
    ELSE dict_set(parsed_data, "urgency", "Medium")

\* variant: missing optional fields stay missing
fill_optional_none(parsed_data) == parsed_data

\* optional fields that are missing are set to the empty string
fill_optional(parsed_data) ==
    [k \in (DOMAIN parsed_data) \cup {optional_fields[i] : i \in DOMAIN optional_fields}
        |-> IF k \in DOMAIN parsed_data THEN parsed_data[k] ELSE ""]

ParseFailure(msg) == [ok |-> FALSE, data |-> [k \in {} |-> ""], error |-> msg]

\* variant: a JSON error is reported by the general except clause
validate_parsed_general_clause(loaded) ==
    IF ~loaded.ok
    THEN ParseFailure("Response validation failed: " \o loaded.error)
    ELSE IF first_missing_field(loaded.data) # ""
    THEN ParseFailure("Response validation failed: Missing or empty required field: "
                      \o first_missing_field(loaded.data))
    ELSE [ok |-> TRUE, data |-> fill_optional(coerce_urgency(loaded.data)), error |-> ""]

\* the checks of _parse_response on the result of json.loads
validate_parsed(loaded) ==
    IF ~loaded.ok
    THEN ParseFailure("Failed to parse LLM response as JSON: " \o loaded.error)
    ELSE IF first_missing_field(loaded.data) # ""
    THEN ParseFailure("Response validation failed: Missing or empty required field: "
                      \o first_missing_field(loaded.data))
    ELSE [ok |-> TRUE, data |-> fill_optional(coerce_urgency(loaded.data)), error |-> ""]

\* variant: only the opening brace is looked for
parse_clean_opening_brace_only(response_clean) ==
    IF find(response_clean, "{") = 0
    THEN ParseFailure("Response validation failed: No JSON structure found in response")
    ELSE validate_parsed(json_loads(SubSeq(response_clean, find(response_clean, "{"),
                                           rfind(response_clean, "}"))))

\* the part of _parse_response after response.strip()
parse_clean(response_clean) ==
    IF find(response_clean, "{") = 0 \/ rfind(response_clean, "}") = 0
    THEN ParseFailure("Response validation failed: No JSON structure found in response")
    ELSE validate_parsed(json_loads(SubSeq(response_clean, find(response_clean, "{"),
                                           rfind(response_clean, "}"))))

\* A fenced code block opens with a line that starts with the fence and ends
\* at the next fence.  The fence is three backticks or three tildes; the
\* language of string literals has no backtick, so the texts of the model
\* are fenced with tildes.  To _parse_response both are ordinary characters.
Fence == "~~~"

\* position of the first occurrence of sub in s at or after position from, 0
\* when there is none
find_from(s, sub, from) ==
    LET hits == { i \in from .. (Len(s) - Len(sub) + 1) : SubSeq(s, i, i + Len(sub) - 1) = sub }
    IN  IF hits = {} THEN 0 ELSE CHOOSE i \in hits : \A j \in hits : i <= j

\* the inner content of the first fenced code block of raw: what stands
\* between the end of the opening fence's line and the closing fence; raw
\* itself when it holds no such block
fence_inner(raw) ==
    LET open  == find_from(raw, Fence, 1)
        eol   == IF open = 0 THEN 0 ELSE find_from(raw, "\n", open)
        close == IF eol = 0 THEN 0 ELSE find_from(raw, Fence, eol)
    IN  IF close = 0 THEN raw ELSE SubSeq(raw, eol + 1, close - 1)

\* variant: the inner content of a fenced code block is the working text
_parse_response_fence_extracted(raw) == parse_clean(strip(fence_inner(raw)))

_parse_response(raw) == parse_clean(strip(raw))

(***************************************************************************)
(* ConsultationLLM._retry_with_backoff, as process_symptoms calls it       *)
(***************************************************************************)
max_retries == 3
base_delay == 1

\* last_exception = None
None == "None"

\* variant: linear instead of exponential backoff
backoff_delay_linear(base, k) == base * k

\* delay = base_delay * (2 ** (attempt - 1))
backoff_delay(base, k) == base * 2 ^ (k - 1)

\* variant: one retry too many
retries_left_inclusive(k, max) == k <= max

\* if attempt < max_retries: ... continue
retries_left(k, max) == k < max

\* variant: only the first exception is kept
record_exception_keep_first(previous, e) == IF previous = None THEN e ELSE previous

\* last_exception = e
record_exception(previous, e) == e

\* the exception raised after the loop
retry_failure_message(max, last) ==
    "Processing failed after " \o int_to_str(max + 1) \o " attempts. Last error: " \o last

(***************************************************************************)
(* The exception handler of process_symptoms                               *)
(***************************************************************************)
NoReraise == ""

\* variant: the handler matches its markers against the text as it is
reraised_message_case_sensitive(error_msg) ==
    IF Contains(error_msg, "timeout")
    THEN "Request timed out. The AI service may be experiencing high load. Please try again."
    ELSE IF Contains(error_msg, "rate limit") \/ Contains(error_msg, "quota")
    THEN "API rate limit exceeded. Please wait a few minutes before trying again."
    ELSE IF Contains(error_msg, "authentication") \/ Contains(error_msg, "api key")
    THEN "API authentication failed. Please check your GEMINI_API_KEY in the .env file."
    ELSE IF Contains(error_msg, "network") \/ Contains(error_msg, "connection")
    THEN "Network connection error. Please check your internet connection and try again."
    ELSE NoReraise

\* variant: the handler also raises for parse and validation errors
reraised_message_parse_branch(error_msg) ==
    IF Contains(lower(error_msg), "timeout")
    THEN "Request timed out. The AI service may be experiencing high load. Please try again."
    ELSE IF Contains(lower(error_msg), "rate limit") \/ Contains(lower(error_msg), "quota")
    THEN "API rate limit exceeded. Please wait a few minutes before trying again."
    ELSE IF Contains(lower(error_msg), "authentication") \/ Contains(lower(error_msg), "api key")
    THEN "API authentication failed. Please check your GEMINI_API_KEY in the .env file."
    ELSE IF Contains(lower(error_msg), "network") \/ Contains(lower(error_msg), "connection")
    THEN "Network connection error. Please check your internet connection and try again."
    ELSE IF Contains(lower(error_msg), "parse") \/ Contains(lower(error_msg), "validation")
    THEN "There was an issue processing the response. Please try again."
    ELSE NoReraise

\* the message of the exception the handler raises for error_msg, NoReraise when
\* it goes on to the fallback recommendation
reraised_message(error_msg) ==
    LET m == lower(error_msg) IN
    IF Contains(m, "timeout")
    THEN "Request timed out. The AI service may be experiencing high load. Please try again."
    ELSE IF Contains(m, "rate limit") \/ Contains(m, "quota")
    THEN "API rate limit exceeded. Please wait a few minutes before trying again."
    ELSE IF Contains(m, "authentication") \/ Contains(m, "api key")
    THEN "API authentication failed. Please check your GEMINI_API_KEY in the .env file."
    ELSE IF Contains(m, "network") \/ Contains(m, "connection")
    THEN "Network connection error. Please check your internet connection and try again."
    ELSE NoReraise

\* n copies of s
RECURSIVE repeat(_, _)
repeat(s, n) ==
    IF n = 0 THEN ""
    ELSE IF n % 2 = 0 THEN repeat(s \o s, n \div 2)
    ELSE s \o repeat(s \o s, n \div 2)

\* a text of 2010 characters
LongSymptoms == repeat("my head hurts. ", 134)

(***************************************************************************)
(* The environment: the inputs and what the LLM call can do                *)
(***************************************************************************)
SymptomInputs ==
    { "", "   ", "flu", "12345 6789", "aaaaaa hurts", "$$a$$",
      "I have chest pain", "a mild cough", "  Sharp <pain>   in KNEE  " }

ErrorTexts ==
    { "connection timeout", "invalid api key", "Invalid API Key", "forbidden",
      "authentication timeout", "unknown glitch", "Service Unavailable" }

RawResponses ==
    { "{\"specialist\":\"Cardiologist\",\"reasoning\":\"chest pain\",\"urgency\":\"High\",\"alternative\":\"Pulmonologist\",\"additional_notes\":\"rest\"}",
      "Here you go: {\"specialist\":\"Cardiologist\",\"reasoning\":\"chest pain\",\"urgency\":\"High\"}",
      "{\"specialist\":\"Neurologist\",\"reasoning\":\"headache\",\"urgency\":\"Severe\"} Take care.",
      "{\"specialist\":\"Neurologist\",\"reasoning\":\"headache\",\"urgency\":",
      "{\"specialist\":\"Neurologist\",\"urgency\":\"Low\"}",
      "{\"specialist\":\"Neurologist\",\"reasoning\":\"headache\",\"urgency\":\"Low\",\"alternative\":\"ENT}" }

\* the lines typed at the prompt of get_user_input
TypedLines ==
    { "", "quit", " EXIT ", "flu", "12345 6789", "aaaaa hurts", "pain <b>", "a$$$$",
      "I have chest pain", "  a  mild\tcough " }

EmptyDict == [k \in {} |-> ""]

Pending == [kind |-> "pending", msg |-> "", rec |-> EmptyDict]
Returned(rec) == [kind |-> "returned", msg |-> "", rec |-> rec]
Raised(kind, msg) == [kind |-> kind, msg |-> msg, rec |-> EmptyDict]

\* the state before anything is called; text and raw are the arguments of the
\* functions that are called on their own, entries the ways the program is
\* entered
InitEntries(text, raw, entries) ==
    /\ symptoms = ""
    /\ cleaned_symptoms = ""
    /\ attempt = 0
    /\ last_exception = None
    /\ delays = << >>
    /\ call_log = << >>
    /\ requester = [kind |-> "none", val |-> ""]
    /\ response = ""
    /\ caught = ""
    /\ parse_calls = 0
    /\ fallback_calls = 0
    /\ outcome = Pending
    /\ interrupted_at = ""
    /\ fb_input = ""
    /\ fb_result = EmptyDict
    /\ fb_seen = [input |-> "", result |-> EmptyDict]
    /\ entry \in entries
    /\ pc = IF entry = "direct" THEN "idle"
            ELSE IF entry = "cli" THEN "prompt"
            ELSE "ui_prompt"
    /\ user_input = ""
    /\ attempt_count = 0
    /\ validation_result = Invalid("", "")
    /\ val_input = text
    /\ val_main = Invalid("", "")
    /\ val_module = Rejected("")
    /\ val_llm = ValueError("", "")
    /\ parse_input = raw
    /\ parse_result = ParseFailure("")
    /\ rejected_run = 0
    /\ examples_shown = FALSE
    /\ exit_status = << >>
    /\ error_count = << >>
    /\ error_category = ""
    /\ history = << >>
    /\ ui_result = Rejected("")

\* process_symptoms is called by a program ("direct") or by main ("cli")
InitWith(text, raw) == InitEntries(text, raw, {"direct", "cli"})

Init == InitWith("", "")

(***************************************************************************)
(* main.get_user_input: one iteration of its loop                          *)
(***************************************************************************)
\* variant: the short forms are not quit commands
quit_commands_words_only == << "quit", "exit" >>

quit_commands == << "quit", "exit", "q", "stop" >>
max_attempts == 3

\* input() returns line: a quit command ends the process, a valid description is
\* returned to main (which passes it to process_symptoms), anything else is
\* reported and the prompt is shown again
ReadLine(line) ==
    /\ pc = "prompt"
    /\ user_input' = strip(line)
    /\ IF InSeq(lower(user_input'), quit_commands)
       THEN /\ pc' = "exited"
            /\ exit_status' = << 0 >>
            /\ UNCHANGED << attempt_count, validation_result, symptoms, rejected_run,
                            examples_shown >>
       ELSE /\ validation_result' = _validate_symptom_input(user_input')
            /\ UNCHANGED exit_status
            /\ LET count == IF user_input' # "" THEN 0 ELSE attempt_count IN
               IF validation_result'.valid
               THEN /\ attempt_count' = count
                    /\ symptoms' = validation_result'.cleaned_input
                    /\ pc' = "idle"
                    /\ rejected_run' = 0
                    /\ examples_shown' = FALSE
               ELSE /\ attempt_count' = IF count + 1 >= max_attempts THEN 0 ELSE count + 1
                    /\ examples_shown' = (count + 1 >= max_attempts)
                    /\ rejected_run' = IF examples_shown' THEN 0
                                       ELSE IF rejected_run < max_attempts
                                       THEN rejected_run + 1
                                       ELSE rejected_run
                    /\ pc' = "prompt"
                    /\ UNCHANGED symptoms
    /\ UNCHANGED << cleaned_symptoms, attempt, last_exception, delays, call_log, requester,
                    response, caught, parse_calls, fallback_calls, outcome,
                    interrupted_at, entry >>
    /\ UNCHANGED << unit_vars, main_vars, ui_vars >>

\* Ctrl+C or end of input at the prompt: sys.exit(0)
PromptInterrupted ==
    /\ pc = "prompt"
    /\ pc' = "exited"
    /\ exit_status' = << 0 >>
    /\ UNCHANGED << symptoms, cleaned_symptoms, attempt, last_exception, delays, call_log,
                    requester, response, caught, parse_calls, fallback_calls, outcome,
                    interrupted_at, entry >>
    /\ UNCHANGED << unit_vars, main_vars, ui_vars >>
    /\ UNCHANGED << user_input, attempt_count, validation_result, rejected_run,
                    examples_shown >>

(***************************************************************************)
(* process_symptoms, step by step                                          *)
(***************************************************************************)
\* variant: the validation is inside the try block
except_clause_validation_in_try(kind, in_try) ==
    IF kind = "KeyboardInterrupt" THEN "done" ELSE "handler"

\* variant: no clause for KeyboardInterrupt before the general one
except_clause_catches_interrupt(kind, in_try) ==
    IF ~in_try THEN "done" ELSE "handler"

\* where an exception raised inside process_symptoms goes: out of process_symptoms
\* ("done") when it is raised outside the try block or is a KeyboardInterrupt (the
\* clause at line 118 raises it again), to the clause "except Exception" otherwise
except_clause(kind, in_try) ==
    IF ~in_try THEN "done"
    ELSE IF kind = "KeyboardInterrupt" THEN "done"
    ELSE "handler"

\* an exception of the given kind and text is raised
Raise(kind, msg, in_try) ==
    /\ pc' = except_clause(kind, in_try)
    /\ IF except_clause(kind, in_try) = "done"
       THEN /\ outcome' = Raised(kind, msg)
            /\ UNCHANGED caught
       ELSE /\ caught' = msg
            /\ UNCHANGED outcome

\* process_symptoms(s) is called: _validate_and_sanitize_input runs before the try
\* block
ProcessSymptoms(s) ==
    /\ pc = "idle"
    /\ symptoms' = s
    /\ IF _validate_and_sanitize_input(s).ok
       THEN /\ cleaned_symptoms' = _validate_and_sanitize_input(s).cleaned
            /\ requester' = [kind |-> "running", val |-> ""]
            /\ pc' = "attempt"
            /\ UNCHANGED << outcome, caught >>
       ELSE /\ Raise("ValueError", _validate_and_sanitize_input(s).error, FALSE)
            /\ UNCHANGED << cleaned_symptoms, requester >>
    /\ UNCHANGED << attempt, last_exception, delays, call_log, response,
                    parse_calls, fallback_calls, interrupted_at >>
    /\ UNCHANGED << unit_vars, cli_vars, main_vars, ui_vars, entry >>

\* variant: the first retry does not sleep either
is_retry_after_first(k) == k > 1

\* if attempt > 0: the initial attempt does not sleep
is_retry(k) == k > 0

\* top of the loop body: a retry sleeps first
BeginAttempt ==
    /\ pc = "attempt"
    /\ IF is_retry(attempt)
       THEN /\ delays' = Append(delays, backoff_delay(base_delay, attempt))
            /\ pc' = "sleeping"
       ELSE /\ pc' = "calling"
            /\ UNCHANGED delays
    /\ UNCHANGED << symptoms, cleaned_symptoms, attempt, last_exception, call_log,
                    requester, response, caught, parse_calls, fallback_calls, outcome,
                    interrupted_at >>
    /\ UNCHANGED << unit_vars, cli_vars, main_vars, ui_vars, entry >>

\* time.sleep(delay) returns
SleepReturns ==
    /\ pc = "sleeping"
    /\ pc' = "calling"
    /\ UNCHANGED << symptoms, cleaned_symptoms, attempt, last_exception, delays, call_log,
                    requester, response, caught, parse_calls, fallback_calls, outcome,
                    interrupted_at >>
    /\ UNCHANGED << unit_vars, cli_vars, main_vars, ui_vars, entry >>

\* Ctrl+C during time.sleep(delay): _retry_with_backoff raises KeyboardInterrupt
\* (lines 293-295, then 308-310)
SleepInterrupted ==
    /\ pc = "sleeping"
    /\ interrupted_at' = "sleep"
    /\ requester' = [kind |-> "KeyboardInterrupt", val |-> ""]
    /\ Raise("KeyboardInterrupt", "Processing was interrupted by user", TRUE)
    /\ UNCHANGED << symptoms, cleaned_symptoms, attempt, last_exception, delays, call_log,
                    response, parse_calls, fallback_calls >>
    /\ UNCHANGED << unit_vars, cli_vars, main_vars, ui_vars, entry >>

\* func() returns the raw text r: _retry_with_backoff returns it
CallReturns(r) ==
    /\ pc = "calling"
    /\ call_log' = Append(call_log, [kind |-> "returned", val |-> r])
    /\ requester' = [kind |-> "returned", val |-> r]
    /\ response' = r
    /\ pc' = "parsing"
    /\ UNCHANGED << symptoms, cleaned_symptoms, attempt, last_exception, delays, caught,
                    parse_calls, fallback_calls, outcome, interrupted_at >>
    /\ UNCHANGED << unit_vars, cli_vars, main_vars, ui_vars, entry >>

\* func() raises an Exception with text e: the next round of the loop, or the end
\* of the loop and the exception of line 329
CallRaises(e) ==
    /\ pc = "calling"
    /\ call_log' = Append(call_log, [kind |-> "raised", val |-> e])
    /\ last_exception' = record_exception(last_exception, e)
    /\ IF _should_retry_error(e) /\ retries_left(attempt, max_retries)
       THEN /\ attempt' = attempt + 1
            /\ pc' = "attempt"
            /\ UNCHANGED << requester, caught, outcome >>
       ELSE /\ requester' = [kind |-> "raised",
                             val |-> retry_failure_message(max_retries, last_exception')]
            /\ Raise("Exception", retry_failure_message(max_retries, last_exception'), TRUE)
            /\ UNCHANGED attempt
    /\ UNCHANGED << symptoms, cleaned_symptoms, delays, response, parse_calls,
                    fallback_calls, interrupted_at >>
    /\ UNCHANGED << unit_vars, cli_vars, main_vars, ui_vars, entry >>

\* Ctrl+C during func(): _retry_with_backoff raises KeyboardInterrupt (lines 308-310)
CallInterrupted ==
    /\ pc = "calling"
    /\ call_log' = Append(call_log, [kind |-> "KeyboardInterrupt", val |-> ""])
    /\ interrupted_at' = "call"
    /\ requester' = [kind |-> "KeyboardInterrupt", val |-> ""]
    /\ Raise("KeyboardInterrupt", "Processing was interrupted by user", TRUE)
    /\ UNCHANGED << symptoms, cleaned_symptoms, attempt, last_exception, delays,
                    response, parse_calls, fallback_calls >>
    /\ UNCHANGED << unit_vars, cli_vars, main_vars, ui_vars, entry >>

\* parsed_result = self._parse_response(response); return parsed_result
ParseResponse ==
    /\ pc = "parsing"
    /\ parse_calls' = parse_calls + 1
    /\ IF _parse_response(response).ok
       THEN /\ outcome' = Returned(_parse_response(response).data)
            /\ pc' = "done"
            /\ UNCHANGED caught
       ELSE Raise("Exception", _parse_response(response).error, TRUE)
    /\ UNCHANGED << symptoms, cleaned_symptoms, attempt, last_exception, delays, call_log,
                    requester, response, fallback_calls, interrupted_at >>
    /\ UNCHANGED << unit_vars, cli_vars, main_vars, ui_vars, entry >>

\* except Exception as e: raise a specific exception, or return the fallback
\* recommendation (fallback_recommendation raises nothing, so line 141 is dead)
HandleException ==
    /\ pc = "handler"
    /\ IF reraised_message(caught) # NoReraise
       THEN /\ outcome' = Raised("Exception", reraised_message(caught))
            /\ UNCHANGED fallback_calls
       ELSE /\ fallback_calls' = fallback_calls + 1
            /\ outcome' = Returned(fallback_recommendation(cleaned_symptoms))
    /\ pc' = "done"
    /\ UNCHANGED << symptoms, cleaned_symptoms, attempt, last_exception, delays, call_log,
                    requester, response, caught, parse_calls, interrupted_at >>
    /\ UNCHANGED << unit_vars, cli_vars, main_vars, ui_vars, entry >>

\* what process_symptoms is called with: any text by a program, the text
\* get_user_input returned by main
Arguments == IF entry = "direct" THEN SymptomInputs ELSE {symptoms}

Next ==
    \/ \E line \in TypedLines : ReadLine(line)
    \/ PromptInterrupted
    \/ \E s \in Arguments : ProcessSymptoms(s)
    \/ BeginAttempt
    \/ SleepReturns
    \/ SleepInterrupted
    \/ \E r \in RawResponses : CallReturns(r)
    \/ \E e \in ErrorTexts : CallRaises(e)
    \/ CallInterrupted
    \/ ParseResponse
    \/ HandleException

Spec == Init /\ [][Next]_vars

(***************************************************************************)
(* The same program with descriptions of more than 2000 characters         *)
(***************************************************************************)
\* a text of exactly 2000 characters
LimitSymptoms == repeat("ab ", 666) \o "ab"

LongLines == { LongSymptoms, "I have chest pain" }

LongArguments == IF entry = "direct" THEN { LongSymptoms } ELSE {symptoms}

NextLong ==
    \/ \E line \in LongLines : ReadLine(line)
    \/ PromptInterrupted
    \/ \E s \in LongArguments : ProcessSymptoms(s)
    \/ BeginAttempt
    \/ SleepReturns
    \/ SleepInterrupted
    \/ \E r \in RawResponses : CallReturns(r)
    \/ \E e \in ErrorTexts : CallRaises(e)
    \/ CallInterrupted
    \/ ParseResponse
    \/ HandleException

SpecLong == Init /\ [][NextLong]_vars

(***************************************************************************)
(* main: the consultation loop around get_user_input and process_symptoms, *)
(* with main._categorize_error and error_handling.categorize_error          *)
(***************************************************************************)
network_keywords == << "timeout", "connection", "network", "unreachable" >>
auth_keywords == << "api key", "authentication", "unauthorized", "forbidden" >>
rate_limit_keywords == << "rate limit", "quota", "too many requests" >>
service_keywords == << "service unavailable", "server error", "internal error" >>
input_keywords == << "invalid", "validation", "parse", "format" >>

\* the "category" of the dictionary main._categorize_error returns
_categorize_error(error) ==
    LET error_str == lower(error) IN
    IF ContainsAny(error_str, network_keywords) THEN "network"
    ELSE IF ContainsAny(error_str, auth_keywords) THEN "auth"
    ELSE IF ContainsAny(error_str, rate_limit_keywords) THEN "rate_limit"
    ELSE IF ContainsAny(error_str, service_keywords) THEN "service"
    ELSE IF ContainsAny(error_str, input_keywords) THEN "input"
    ELSE "unknown"

\* the "category" of the dictionary error_handling.categorize_error returns
categorize_error(error) ==
    LET error_str == lower(error) IN
    IF ContainsAny(error_str, << "timeout", "connection", "network", "unreachable" >>)
    THEN "network"
    ELSE IF ContainsAny(error_str, << "api key", "authentication", "unauthorized", "forbidden" >>)
    THEN "auth"
    ELSE IF ContainsAny(error_str, << "rate limit", "quota", "too many requests" >>)
    THEN "rate_limit"
    ELSE IF ContainsAny(error_str, << "service unavailable", "server error", "internal error" >>)
    THEN "service"
    ELSE IF ContainsAny(error_str, << "invalid", "validation", "parse", "format" >>)
    THEN "input"
    ELSE "unknown"

\* the locals of process_symptoms are gone when it is called again
ResetConsultation ==
    /\ symptoms' = ""
    /\ cleaned_symptoms' = ""
    /\ attempt' = 0
    /\ last_exception' = None
    /\ delays' = << >>
    /\ call_log' = << >>
    /\ requester' = [kind |-> "none", val |-> ""]
    /\ response' = ""
    /\ caught' = ""
    /\ parse_calls' = 0
    /\ fallback_calls' = 0
    /\ outcome' = Pending
    /\ interrupted_at' = ""

KeepConsultation ==
    UNCHANGED << symptoms, cleaned_symptoms, attempt, last_exception, delays, call_log,
                 requester, response, caught, parse_calls, fallback_calls, outcome,
                 interrupted_at >>

\* variant: a success leaves main._error_count as it is
error_count_after_success_kept(count) == count

\* if hasattr(main, '_error_count'): main._error_count = 0
error_count_after_success(count) == IF count = << >> THEN << >> ELSE << 0 >>

\* if not hasattr(main, '_error_count'): main._error_count = 0
\* main._error_count += 1
error_count_after_failure(count) ==
    IF count = << >> THEN << 1 >> ELSE << count[1] + 1 >>

\* the body of main's loop after process_symptoms ended (main.py 492-521), up
\* to the question of ask_continue: a result is displayed, an interruption
\* leads back to the prompt, an exception is counted and displayed
AfterProcessSymptoms ==
    /\ entry = "cli"
    /\ pc = "done"
    /\ IF outcome.kind = "returned"
       THEN /\ error_count' = error_count_after_success(error_count)
            /\ history' = Append(history, "succeeded")
            /\ pc' = "ask_continue"
            /\ KeepConsultation
            /\ UNCHANGED error_category
       ELSE IF outcome.kind = "KeyboardInterrupt"
       THEN /\ history' = Append(history, "interrupted")
            /\ pc' = "prompt"
            /\ ResetConsultation
            /\ UNCHANGED << error_count, error_category >>
       ELSE /\ error_count' = error_count_after_failure(error_count)
            /\ error_category' = _categorize_error(outcome.msg)
            /\ history' = Append(history, "failed")
            /\ pc' = "ask_continue"
            /\ KeepConsultation
    /\ UNCHANGED << unit_vars, cli_vars, ui_vars, entry >>

yes_answers == << "y", "yes", "yeah", "yep" >>
no_answers == << "n", "no", "nope", "quit", "exit" >>

\* ask_continue reads an answer: yes leads to the next consultation, no ends
\* the loop and main returns, anything else is asked again
AskContinue(answer) ==
    /\ pc = "ask_continue"
    /\ IF InSeq(lower(strip(answer)), yes_answers)
       THEN /\ pc' = "prompt"
            /\ ResetConsultation
            /\ UNCHANGED exit_status
       ELSE IF InSeq(lower(strip(answer)), no_answers)
       THEN /\ pc' = "exited"
            /\ exit_status' = << 0 >>
            /\ KeepConsultation
       ELSE /\ UNCHANGED << pc, exit_status >>
            /\ KeepConsultation
    /\ UNCHANGED << user_input, attempt_count, validation_result, rejected_run,
                    examples_shown >>
    /\ UNCHANGED << unit_vars, main_vars, ui_vars, entry >>

\* Ctrl+C or end of input at the question of ask_continue: it returns False
AskContinueInterrupted ==
    /\ pc = "ask_continue"
    /\ pc' = "exited"
    /\ exit_status' = << 0 >>
    /\ KeepConsultation
    /\ UNCHANGED << user_input, attempt_count, validation_result, rejected_run,
                    examples_shown >>
    /\ UNCHANGED << unit_vars, main_vars, ui_vars, entry >>

\* ui.get_user_input, one iteration of its loop: a quit command ends the
\* process, a valid description is returned, anything else is reported and
\* the prompt is shown again
ui_get_user_input(line) ==
    /\ pc = "ui_prompt"
    /\ user_input' = strip(line)
    /\ IF InSeq(lower(user_input'), quit_commands)
       THEN /\ pc' = "exited"
            /\ exit_status' = << 0 >>
            /\ UNCHANGED ui_result
       ELSE /\ ui_result' = validate_symptom_input(user_input')
            /\ pc' = IF ui_result'.valid THEN "ui_returned" ELSE "ui_prompt"
            /\ UNCHANGED exit_status
    /\ KeepConsultation
    /\ UNCHANGED << attempt_count, validation_result, rejected_run, examples_shown >>
    /\ UNCHANGED << unit_vars, main_vars, entry >>

\* Ctrl+C or end of input at the prompt of ui.get_user_input: sys.exit(0)
UiPromptInterrupted ==
    /\ pc = "ui_prompt"
    /\ pc' = "exited"
    /\ exit_status' = << 0 >>
    /\ KeepConsultation
    /\ UNCHANGED << user_input, attempt_count, validation_result, rejected_run,
                    examples_shown >>
    /\ UNCHANGED << unit_vars, main_vars, ui_vars, entry >>

\* at most MaxConsultations consultations in a session
MaxConsultations == 3

QuitLines == { "quit", " EXIT ", "q", "Stop" }

MainLines ==
    QuitLines \cup { "", "flu", "pain <b>", "aaaaa hurts", "a$$$$", "I have chest pain" }

\* the lines typed at the prompt of the consultation after n others: a
\* description of more than 2000 characters is typed in the first one only,
\* and nothing but a quit command after the last one
LinesTyped(n) ==
    IF n = 0 THEN MainLines \cup { LongSymptoms }
    ELSE IF n < MaxConsultations THEN MainLines
    ELSE QuitLines

MainErrors == { "connection timeout", "Invalid API Key", "unknown glitch" }

MainResponses ==
    { "Here you go: {\"specialist\":\"Cardiologist\",\"reasoning\":\"chest pain\",\"urgency\":\"High\"}",
      "no json here" }

ContinueAnswers == { "y", " Yes", "n", "quit", "maybe" }

InitMain == InitEntries("", "", {"cli", "ui"})

NextMain ==
    \/ \E line \in LinesTyped(Len(history)) : ReadLine(line)
    \/ PromptInterrupted
    \/ ProcessSymptoms(symptoms)
    \/ BeginAttempt
    \/ SleepReturns
    \/ SleepInterrupted
    \/ \E r \in MainResponses : CallReturns(r)
    \/ \E e \in MainErrors : CallRaises(e)
    \/ CallInterrupted
    \/ ParseResponse
    \/ HandleException
    \/ AfterProcessSymptoms
    \/ AskContinueInterrupted
    \/ \E answer \in ContinueAnswers : AskContinue(answer)
    \/ \E line \in LinesTyped(0) : ui_get_user_input(line)
    \/ UiPromptInterrupted

SpecMain == InitMain /\ [][NextMain]_vars

(***************************************************************************)
(* fallback_recommendation called on its own, on texts made of up to       *)
(* MaxWords words                                                          *)
(***************************************************************************)
MaxWords == 2

FallbackWords == << "chest pain", "MILD", "headache", "Bleeding" >>

RECURSIVE join(_)
join(words) ==
    IF words = << >> THEN ""
    ELSE IF Len(words) = 1 THEN words[1]
    ELSE words[1] \o " " \o join(Tail(words))

\* the text of the words with the given indices
words_text(f) == join([i \in 1 .. Len(f) |-> FallbackWords[f[i]]])

FallbackTexts ==
    { words_text(f) : f \in UNION { [1 .. m -> DOMAIN FallbackWords] : m \in 0 .. MaxWords } }

\* what fallback_recommendation returns for each of the texts
FallbackResults == [text \in FallbackTexts |-> fallback_recommendation(text)]

FallbackCall(text) ==
    /\ fb_seen' = [input |-> fb_input, result |-> fb_result]
    /\ fb_input' = text
    /\ fb_result' = FallbackResults[text]
    /\ UNCHANGED << pipeline_vars, cli_vars, main_vars, ui_vars, entry, validator_vars, parser_vars >>

NextFallback == \E text \in FallbackTexts : FallbackCall(text)

SpecFallback == Init /\ [][NextFallback]_vars

(***************************************************************************)
(* The three validators, called on their own with texts built from pieces  *)
(***************************************************************************)
MaxPieces == 2

TextPieces ==
    << "a", "ab", " ", "    ", "aaaa", "pain?", "<>", "12345", "a    b", "$$$$$", "\t",
       "I have a headache" >>

RECURSIVE concat(_)
concat(texts) == IF texts = << >> THEN "" ELSE Head(texts) \o concat(Tail(texts))

\* the text of the pieces with the given indices
pieces_text(f) == concat([i \in 1 .. Len(f) |-> TextPieces[f[i]]])

ShortTexts ==
    { pieces_text(f) : f \in UNION { [1 .. m -> DOMAIN TextPieces] : m \in 0 .. MaxPieces } }

\* texts of 2000, 2001, 2002 and 2010 characters
LongTexts ==
    { LimitSymptoms,
      repeat("ab ", 667) \o " ",
      repeat("ab ", 667) \o "c",
      LongSymptoms }

\* texts with a word that occurs 10 and 11 times
RepeatedWordTexts ==
    { repeat("pain ", 10), repeat("Pain pain ", 5) \o "PAIN", repeat("pain ", 11) \o "<>",
      repeat("ab ", 12), repeat("12345 ", 11) }

ValidationTexts == ShortTexts \cup LongTexts \cup RepeatedWordTexts

InitValidate == \E text \in ValidationTexts : InitWith(text, "")

\* the three validators are applied to val_input
ValidateInput ==
    /\ val_main = Invalid("", "")
    /\ val_main' = _validate_symptom_input(val_input)
    /\ val_module' = validate_symptom_input(val_input)
    /\ val_llm' = _validate_and_sanitize_input(val_input)
    /\ UNCHANGED << pipeline_vars, cli_vars, main_vars, ui_vars, entry, fallback_vars, parser_vars, val_input >>

NextValidate == ValidateInput

SpecValidate == InitValidate /\ [][NextValidate]_vars

(***************************************************************************)
(* _parse_response called on its own, on responses made of a prefix, a     *)
(* body and a suffix                                                       *)
(***************************************************************************)
ResponsePrefixes == { "", "Here you go: ", " \n", "} ", "{ " }

ResponseBodies ==
    { "{\"specialist\":\"Cardiologist\",\"reasoning\":\"chest pain\",\"urgency\":\"High\",\"alternative\":\"Pulmonologist\",\"additional_notes\":\"rest\"}",
      "{\"specialist\":\"Cardiologist\",\"reasoning\":\"chest pain\",\"urgency\":\"High\"}",
      "{\"specialist\":\"Neurologist\",\"urgency\":\"Low\"}",
      "{\"specialist\":\"\",\"reasoning\":\"headache\",\"urgency\":\"Low\"}",
      "{\"specialist\":\"Neurologist\",\"reasoning\":\"headache\"}",
      "{\"specialist\":\"Neurologist\",\"reasoning\":\"headache\",\"urgency\":\"Severe\"}",
      "{\"specialist\":\"Neurologist\",\"reasoning\":\"headache\",\"urgency\":",
      "{\"specialist\":\"Neurologist\",\"reasoning\":\"headache\",\"urgency\":\"high\"}",
      "{\"specialist\":\"Neurologist\",\"reasoning\":\"headache\",\"urgency\":\"\"}",
      "{\"reasoning\":\"headache\",\"urgency\":\"Severe\"}",
      "{\"specialist\":\"Dentist\",\"reasoning\":\"tooth } ache\",\"urgency\":\"Low\"}",
      "{}",
      "no json here",
      "" }

ResponseSuffixes == { "", " Take care.", " }", "\n" }

\* a character as it stands inside a JSON string
escape_char(c) ==
    CASE c = "\"" -> "\\\""
      [] c = "\\" -> "\\\\"
      [] c = "\n" -> "\\n"
      [] c = "\t" -> "\\t"
      [] OTHER    -> c

RECURSIVE escape_range(_, _, _)
escape_range(s, lo, hi) ==
    IF lo > hi THEN ""
    ELSE IF lo = hi THEN escape_char(CharAt(s, lo))
    ELSE escape_range(s, lo, (lo + hi) \div 2) \o escape_range(s, ((lo + hi) \div 2) + 1, hi)

json_string(s) == "\"" \o escape_range(s, 1, Len(s)) \o "\""

\* a record of the five fields written as a JSON object
json_dumps(r) ==
    "{\"specialist\": " \o json_string(r.specialist)
        \o ", \"reasoning\": " \o json_string(r.reasoning)
        \o ", \"urgency\": " \o json_string(r.urgency)
        \o ", \"alternative\": " \o json_string(r.alternative)
        \o ", \"additional_notes\": " \o json_string(r.additional_notes) \o "}"

\* records that have the five fields and a valid urgency
FiveFieldRecords ==
    [ specialist : {"Cardiologist", ""},
      reasoning : {"chest pain", "say \"ah\" {now}", ""},
      urgency : {"High", "Medium", "Low"},
      alternative : {"", "Pulmonologist"},
      additional_notes : {"", "rest\nand fluids"} ]

RecordTexts == { json_dumps(r) : r \in FiveFieldRecords }

\* the record an answer in a fenced code block holds
FencedRecord == "{\"specialist\":\"Cardiologist\",\"reasoning\":\"chest pain\",\"urgency\":\"High\"}"

\* what stands before the fenced code block, with the opening fence's line
FenceOpenings ==
    { Fence \o "json\n",
      "Here it is:\n" \o Fence \o "\n",
      "Use {braces} like this:\n" \o Fence \o "json\n",
      "} so:\n" \o Fence \o "json\n" }

\* the closing fence with what stands after the fenced code block
FenceClosings ==
    { "\n" \o Fence,
      "\n" \o Fence \o "\nTake care.",
      "\n" \o Fence \o "\nThat is {all}.",
      "\n" \o Fence \o "\n{" }

FencedTexts == { o \o FencedRecord \o c : o \in FenceOpenings, c \in FenceClosings }

ParseTexts ==
    { p \o b \o q : p \in ResponsePrefixes, b \in ResponseBodies, q \in ResponseSuffixes }
        \cup RecordTexts \cup FencedTexts

InitParse == \E raw \in ParseTexts : InitWith("", raw)

\* _parse_response is applied to parse_input
ParseCall ==
    /\ parse_result = ParseFailure("")
    /\ parse_result' = _parse_response(parse_input)
    /\ UNCHANGED << pipeline_vars, cli_vars, main_vars, ui_vars, entry, fallback_vars, validator_vars,
                    parse_input >>

NextParse == ParseCall

SpecParse == InitParse /\ [][NextParse]_vars

(***************************************************************************)
(* Properties                                                              *)
(***************************************************************************)
Valid == _validate_and_sanitize_input(symptoms).ok

FallbackOutcome == Returned(fallback_recommendation(cleaned_symptoms))

\* the markers the handler of process_symptoms looks for
HandlerMarkers ==
    << "timeout", "rate limit", "quota", "authentication", "api key", "network",
       "connection" >>

HasHandlerMarker(text) == ContainsAny(lower(text), HandlerMarkers)

Ended(kind) == kind \in {"returned", "raised", "KeyboardInterrupt"}

AllRaised(log) == \A i \in DOMAIN log : log[i].kind = "raised"

RECURSIVE Sum(_)
Sum(seq) == IF seq = << >> THEN 0 ELSE Head(seq) + Sum(Tail(seq))

BackoffSchedule == << 1, 2, 4 >>

FiveFields == {"specialist", "reasoning", "urgency", "alternative", "additional_notes"}

\* C1 as stated: whenever the request stage or the normalization stage of a valid,
\* non-interrupted consultation fails, process_symptoms returns the fallback
\* recommendation, whatever the text of the error.
C1_FailureAlwaysFallsBack ==
    (pc = "done" /\ Valid /\ interrupted_at = "") =>
        /\ outcome.kind = "returned"
        /\ (caught # "" => outcome = FallbackOutcome /\ fallback_calls = 1)

\* C1 (amended): a valid, non-interrupted consultation whose request or
\* normalization stage fails returns the fallback recommendation when the
\* lower-cased text of the error holds none of the handler's markers, and
\* raises an Exception, without calling the fallback generator, when it holds one;
\* a consultation without a failure returns a recommendation.
C1_FailureFallsBackUnlessMarked ==
    (pc = "done" /\ Valid /\ interrupted_at = "") =>
        IF caught = "" THEN outcome.kind = "returned" /\ fallback_calls = 0
        ELSE IF HasHandlerMarker(caught)
             THEN outcome.kind = "Exception" /\ fallback_calls = 0
             ELSE outcome = FallbackOutcome /\ fallback_calls = 1

C1_Witness ==
    /\ pc = "done"
    /\ requester.kind = "raised"
    /\ Len(call_log) = 4
    /\ cleaned_symptoms = "I have chest pain"
    /\ outcome = FallbackOutcome
    /\ outcome.rec["urgency"] = "High"

\* C2: a rejected input ends process_symptoms with the validation error and no
\* stage is reached: the call, the parser and the fallback generator are invoked
\* only for a text the validator accepted (and, from the prompt, only for a line
\* the prompt's validator accepted too).
C2_RejectedReachesNoStage ==
    /\ outcome.kind = "ValueError" =>
          /\ pc = "done"
          /\ ~Valid
          /\ requester.kind = "none"
          /\ call_log = << >> /\ delays = << >>
          /\ parse_calls = 0 /\ fallback_calls = 0
    /\ (pc \in {"attempt", "sleeping", "calling", "parsing", "handler"}
        \/ call_log # << >> \/ parse_calls > 0 \/ fallback_calls > 0) =>
          /\ Valid
          /\ cleaned_symptoms = _validate_and_sanitize_input(symptoms).cleaned
          /\ entry = "cli" =>
                /\ _validate_symptom_input(user_input).valid
                /\ symptoms = _validate_symptom_input(user_input).cleaned_input
    /\ pc \in {"prompt", "exited"} =>
          call_log = << >> /\ parse_calls = 0 /\ fallback_calls = 0

C2_Witness ==
    /\ pc = "done"
    /\ outcome.kind = "ValueError"
    /\ symptoms = "aaaaaa hurts"

\* C3: one run of _retry_with_backoff invokes the call at most 4 times, and has
\* ended once it has invoked it 4 times.
C3_AtMostFourCalls ==
    /\ Len(call_log) <= 4
    /\ Len(call_log) = 4 => Ended(requester.kind) /\ pc \in {"parsing", "handler", "done"}

C3_Witness ==
    /\ Len(call_log) = 4
    /\ AllRaised(call_log)
    /\ requester.kind = "raised"

\* C4: the waits of one request are a prefix of (1, 2, 4), at most 7 in total;
\* there is none before the initial attempt, wait k follows failed attempt k, and
\* there is none after the attempt that ends the request.
C4_BackoffDelays ==
    /\ Len(delays) <= 3
    /\ delays = SubSeq(BackoffSchedule, 1, Len(delays))
    /\ Sum(delays) <= 7
    /\ call_log = << >> => delays = << >>
    /\ Len(delays) <= Len(call_log)
    /\ pc = "sleeping" => Len(delays) = Len(call_log) /\ AllRaised(call_log)
    /\ pc = "calling" => Len(delays) = Len(call_log)
    /\ requester.kind \in {"returned", "raised"} => Len(delays) = Len(call_log) - 1

C4_Witness ==
    /\ delays = << 1, 2, 4 >>
    /\ Len(call_log) = 4
    /\ requester.kind = "raised"

\* C5: when the call fails j times with retryable errors and then succeeds, the
\* requester returns the value of the successful attempt after exactly j + 1
\* calls and j waits, and the call is not invoked again.
C5_SuccessAfterFailures ==
    requester.kind = "returned" =>
        /\ Len(call_log) \in 1 .. 4
        /\ call_log[Len(call_log)] = [kind |-> "returned", val |-> requester.val]
        /\ response = requester.val
        /\ \A i \in 1 .. (Len(call_log) - 1) :
              call_log[i].kind = "raised" /\ _should_retry_error(call_log[i].val)
        /\ Len(delays) = Len(call_log) - 1
        /\ attempt = Len(call_log) - 1

C5_Witness ==
    /\ pc = "done"
    /\ requester.kind = "returned"
    /\ Len(call_log) = 3
    /\ call_log[1].val = "connection timeout"
    /\ call_log[2].val = "connection timeout"
    /\ delays = << 1, 2 >>

\* C6 as stated: an attempt that fails with an error whose lower-cased text holds
\* a non-retryable marker is the last one: no wait and no call follows it.
C6_NonRetryableAborts ==
    \A i \in DOMAIN call_log :
        (/\ call_log[i].kind = "raised"
         /\ ContainsAny(lower(call_log[i].val), non_retryable_errors)) =>
            /\ i = Len(call_log)
            /\ Len(delays) = i - 1
            /\ requester.kind = "raised"

\* C7: when all 4 attempts fail, the requester raises, and its exception carries
\* the error of the fourth attempt.
C7_ExhaustionCarriesLastError ==
    (Len(call_log) = 4 /\ AllRaised(call_log)) =>
        /\ requester.kind = "raised"
        /\ requester.val = "Processing failed after 4 attempts. Last error: " \o call_log[4].val
        /\ last_exception = call_log[4].val
        /\ response = ""

C7_Witness ==
    /\ Len(call_log) = 4
    /\ AllRaised(call_log)
    /\ call_log[1].val = "connection timeout"
    /\ call_log[4].val = "unknown glitch"
    /\ requester.kind = "raised"

\* C8: after Ctrl+C during a wait or during the call, process_symptoms has ended
\* with KeyboardInterrupt; the call is not invoked again (the interrupted call is
\* the last one, the interrupted wait is followed by no call), and neither the
\* parser nor the handler nor the fallback generator runs.
C8_InterruptEndsRequest ==
    interrupted_at # "" =>
        /\ pc = "done"
        /\ outcome = Raised("KeyboardInterrupt", "Processing was interrupted by user")
        /\ requester.kind = "KeyboardInterrupt"
        /\ parse_calls = 0 /\ fallback_calls = 0 /\ caught = ""
        /\ interrupted_at = "call" =>
              /\ call_log[Len(call_log)].kind = "KeyboardInterrupt"
              /\ Len(delays) = Len(call_log) - 1
        /\ interrupted_at = "sleep" =>
              /\ AllRaised(call_log)
              /\ Len(delays) = Len(call_log)

C8_Witness ==
    /\ interrupted_at = "sleep"
    /\ Len(delays) = 2
    /\ pc = "done"

\* C9: once the call has returned a response it is the last invocation and no
\* wait follows it; the response is parsed once, and a response that does not
\* parse goes to the handler and from there to the fallback recommendation.
C9_NoRetryAfterResponse ==
    requester.kind = "returned" =>
        /\ call_log[Len(call_log)] = [kind |-> "returned", val |-> response]
        /\ Len(delays) = Len(call_log) - 1
        /\ parse_calls = IF pc = "parsing" THEN 0 ELSE 1
        /\ (pc # "parsing" /\ ~_parse_response(response).ok) =>
              /\ caught = _parse_response(response).error
              /\ pc = "handler" => fallback_calls = 0
              /\ pc = "done" => outcome = FallbackOutcome /\ fallback_calls = 1

C9_Witness ==
    /\ pc = "done"
    /\ requester.kind = "returned"
    /\ ~_parse_response(response).ok
    /\ Len(call_log) = 2
    /\ outcome = FallbackOutcome

\* C10: fallback_recommendation returns, for every text (the empty one too) and
\* without invoking the LLM call, a recommendation with the five fields, the
\* specialist General Physician, a non-empty reasoning and an urgency of High,
\* Medium or Low; two calls with the same text return the same recommendation.
C10_FallbackNeverFails ==
    /\ call_log = << >>
    /\ fb_result # EmptyDict =>
          /\ DOMAIN fb_result = FiveFields
          /\ fb_result["specialist"] = "General Physician"
          /\ Len(fb_result["reasoning"]) > 0
          /\ fb_result["urgency"] \in {"High", "Medium", "Low"}
          /\ (fb_seen.result # EmptyDict /\ fb_seen.input = fb_input) =>
                fb_seen.result = fb_result

C10_Witness ==
    /\ fb_input = ""
    /\ fb_result # EmptyDict
    /\ fb_result["urgency"] = "Medium"
    /\ fb_seen.input = ""
    /\ fb_seen.result = fb_result

\* C11: the urgency of the fallback recommendation is High when the lower-cased
\* text holds a high-urgency phrase (also when it holds a low-urgency phrase as
\* well), otherwise Low when it holds a low-urgency phrase, otherwise Medium; so
\* a text with "chest pain" or "Bleeding" gets High, and "MILD headache" gets Low.
C11_UrgencyByKeyword ==
    fb_result # EmptyDict =>
        /\ fb_result["urgency"] =
              IF ContainsAny(lower(fb_input), high_urgency_keywords) THEN "High"
              ELSE IF ContainsAny(lower(fb_input), low_urgency_keywords) THEN "Low"
              ELSE "Medium"
        /\ (Contains(fb_input, "chest pain") \/ Contains(fb_input, "Bleeding")) =>
              fb_result["urgency"] = "High"
        /\ fb_input \in {"MILD", "MILD headache", "headache MILD", "MILD MILD"} =>
              fb_result["urgency"] = "Low"
        /\ fb_input \in {"", "headache", "headache headache"} =>
              fb_result["urgency"] = "Medium"

C11_Witness ==
    /\ fb_input = "chest pain MILD"
    /\ fb_result # EmptyDict
    /\ fb_result["urgency"] = "High"

\* the validators have been applied to val_input
Validated == val_main # Invalid("", "")

Trimmed == strip(val_input)

MainTooShort ==
    /\ ~val_main.valid
    /\ val_main.error_type = "too_short"
    /\ val_main.error_message =
          "Please provide a more detailed description of your symptoms (at least 5 characters)."

ModuleTooShort ==
    /\ ~val_module.valid
    /\ val_module.error_message =
          "Please provide a more detailed description (at least 5 characters)."

LlmTooShort ==
    /\ ~val_llm.ok
    /\ val_llm.error = "Please provide a more detailed description of your symptoms"

\* C12 as stated: every input whose trimmed length is below 5 is rejected as too
\* short, by each of the three validators.
C12_ShortIsTooShort ==
    (Validated /\ Len(Trimmed) < 5) => MainTooShort /\ ModuleTooShort /\ LlmTooShort

\* C12 (amended): every input whose trimmed length is between 1 and 4 is rejected
\* as too short by each of the three validators; an input whose trimmed length
\* is 0 is rejected as empty, not as too short.
C12_ShortNonEmptyIsTooShort ==
    Validated =>
        /\ Len(Trimmed) \in 1 .. 4 => MainTooShort /\ ModuleTooShort /\ LlmTooShort
        /\ Len(Trimmed) = 0 =>
              /\ ~val_main.valid /\ val_main.error_type = "empty"
              /\ ~val_module.valid
              /\ val_module.error_message = "Please enter a description of your symptoms."
              /\ ~val_llm.ok
              /\ val_llm.error = IF val_input = ""
                                 THEN "Symptoms must be provided as a non-empty string"
                                 ELSE "Symptoms description cannot be empty"
        /\ MainTooShort \/ ModuleTooShort \/ LlmTooShort => Len(Trimmed) \in 1 .. 4

C12_Witness ==
    /\ Validated
    /\ val_input = " aaaa"
    /\ MainTooShort /\ ModuleTooShort /\ LlmTooShort

\* text holds n identical consecutive characters
HasRun(text, n) ==
    \E i \in 1 .. (Len(text) - n + 1) :
        \A j \in (i + 1) .. (i + n - 1) : CharAt(text, j) = CharAt(text, i)

MainRepetition ==
    /\ ~val_main.valid
    /\ val_main.error_type = "repeated_characters"

ModuleRepetition ==
    /\ ~val_module.valid
    /\ val_module.error_message = "Please avoid excessive repetition."

LlmRepetition ==
    /\ ~val_llm.ok
    /\ val_llm.error =
          "Please avoid excessive repetition of characters in your symptom description"

\* C13: every input whose trimmed text (of at most 2000 characters, so that the
\* earlier checks pass) holds a run of 5 or more identical characters is
\* rejected for excessive repetition, by the validators of the prompt and by the
\* validator of process_symptoms.
C13_RunOfFiveIsRejected ==
    (Validated /\ Len(Trimmed) <= MaxSymptomLength /\ HasRun(Trimmed, 5)) =>
        MainRepetition /\ ModuleRepetition /\ LlmRepetition

\* the position, in the order empty, too short, too long, excessive repetition,
\* invalid characters, no meaningful content, of the first check of
\* main._validate_symptom_input that the trimmed text violates; 0 when it violates none
MainFirstViolated(text) ==
    IF Len(text) = 0 THEN 1
    ELSE IF Len(text) < 5 THEN 2
    ELSE IF Len(text) > 2000 THEN 3
    ELSE IF _has_excessive_repetition(text) THEN 4
    ELSE IF \E i \in 1 .. Len(text) : ~IsAllowedChar(CharAt(text, i)) THEN 5
    ELSE IF \A i \in 1 .. Len(text) : ~IsLetter(CharAt(text, i)) THEN 6
    ELSE 0

\* the same for validation.validate_symptom_input
ModuleFirstViolated(text) ==
    IF Len(text) = 0 THEN 1
    ELSE IF Len(text) < 5 THEN 2
    ELSE IF Len(text) > 2000 THEN 3
    ELSE IF has_excessive_repetition(text) THEN 4
    ELSE IF \E i \in 1 .. Len(text) : ~IsStandardChar(CharAt(text, i)) THEN 5
    ELSE IF \A i \in 1 .. Len(text) : ~IsLetter(CharAt(text, i)) THEN 6
    ELSE 0

MainErrorTypes ==
    << "empty", "too_short", "too_long", "repeated_characters", "invalid_characters",
       "no_meaningful_content" >>

ModuleErrorMessages ==
    << "Please enter a description of your symptoms.",
       "Please provide a more detailed description (at least 5 characters).",
       "Description is too long. Keep it under 2000 characters.",
       "Please avoid excessive repetition.",
       "Use only standard characters.",
       "Include descriptive text about your symptoms." >>

\* C14: each validator of the prompt reports the error of the first check, in
\* the order empty, too short, too long, excessive repetition, invalid
\* characters, no meaningful content, that the input violates, and accepts the
\* input only if it violates none.
C14_FirstViolatedCheckIsReported ==
    Validated =>
        LET main_first   == MainFirstViolated(Trimmed)
            module_first == ModuleFirstViolated(Trimmed)
        IN  /\ val_main.valid = (main_first = 0)
            /\ ~val_main.valid => val_main.error_type = MainErrorTypes[main_first]
            /\ val_module.valid = (module_first = 0)
            /\ ~val_module.valid =>
                  val_module.error_message = ModuleErrorMessages[module_first]

C14_Witness ==
    /\ Validated
    /\ val_input = "$$$$$<>"
    /\ val_main.error_type = "repeated_characters"
    /\ val_module.error_message = "Please avoid excessive repetition."

\* the allow-listed punctuation of a SymptomText
AllowListedPunctuation ==
    {".", ",", ";", ":", "!", "?", "'", "\"", "(", ")", "[", "]", "/", "+", "*", "&", "%",
     "$", "#", "@", "-"}

AllowListed(c) == IsLetter(c) \/ IsDigit(c) \/ c = " " \/ c \in AllowListedPunctuation

\* a word of more than 2 characters occurs more than 10 times in text
\* (case-insensitive)
HasRepeatedWord(text) ==
    LET lowered == lower(text)
        starts  == word_starts(lowered)
    IN  \E i \in starts :
           /\ Len(word_at(lowered, i)) > 2
           /\ Cardinality({ j \in starts : word_at(lowered, j) = word_at(lowered, i) }) > 10

\* the invariants of a SymptomText, with the given least length
SymptomTextInvariants(text, least) ==
    /\ Len(text) >= least /\ Len(text) <= 2000
    /\ \E i \in 1 .. Len(text) : IsLetter(CharAt(text, i))
    /\ ~HasRun(text, 5)
    /\ ~HasRepeatedWord(text)
    /\ \A i \in 1 .. Len(text) : AllowListed(CharAt(text, i))

\* C15 as stated: every text a validator of the prompt returns as accepted has a
\* length in [5, 2000], a letter, no run of more than 4 identical characters, no
\* word of more than 2 characters more than 10 times, and allow-listed
\* characters only.
C15_AcceptedSatisfiesInvariants ==
    Validated =>
        /\ val_main.valid => SymptomTextInvariants(val_main.cleaned_input, 5)
        /\ val_module.valid => SymptomTextInvariants(val_module.cleaned_input, 5)

\* C15 (amended): every text a validator of the prompt returns as accepted has a
\* length in [3, 2000] (the trimmed input has a length in [5, 2000], collapsing
\* its whitespace may shorten it), a letter, no run of more than 4 identical
\* characters, no word of more than 2 characters more than 10 times, and
\* allow-listed characters only.
C15_AcceptedSatisfiesInvariantsFromThree ==
    Validated =>
        /\ val_main.valid =>
              /\ SymptomTextInvariants(val_main.cleaned_input, 3)
              /\ Len(Trimmed) >= 5 /\ Len(Trimmed) <= 2000
        /\ val_module.valid =>
              /\ SymptomTextInvariants(val_module.cleaned_input, 3)
              /\ Len(Trimmed) >= 5 /\ Len(Trimmed) <= 2000

C15_Witness ==
    /\ Validated
    /\ val_input = "a    b"
    /\ val_main.valid /\ val_main.cleaned_input = "a b"
    /\ val_module.valid /\ val_module.cleaned_input = "a b"

\* text passes the empty, length and repetition checks
PassesEarlierChecks(text) ==
    /\ Len(text) >= 5 /\ Len(text) <= 2000
    /\ ~HasRun(text, 5)
    /\ ~HasRepeatedWord(text)

\* text holds a character that is neither allow-listed nor whitespace
HasOutsideCharacter(text) ==
    \E i \in 1 .. Len(text) : ~(AllowListed(CharAt(text, i)) \/ IsSpace(CharAt(text, i)))

\* C16: an input that passes the empty, length and repetition checks is rejected
\* for invalid characters exactly when it holds a character outside the allow
\* list, by main._validate_symptom_input and by validation.validate_symptom_input.
C16_InvalidCharactersExactly ==
    (Validated /\ PassesEarlierChecks(Trimmed)) =>
        /\ (~val_main.valid /\ val_main.error_type = "invalid_characters")
              = HasOutsideCharacter(Trimmed)
        /\ (~val_module.valid /\ val_module.error_message = "Use only standard characters.")
              = HasOutsideCharacter(Trimmed)

\* C17: a description whose trimmed length exceeds 2000 characters is rejected as
\* too long and never reaches the LLM call, neither whole nor truncated: at the
\* prompt it is refused with too_long, and process_symptoms, called with it,
\* ends with a validation error before any call.
C17_TooLongNeverForwarded ==
    /\ (entry = "cli" /\ Len(user_input) > 2000) =>
          /\ pc \in {"prompt", "exited"}
          /\ ~validation_result.valid /\ validation_result.error_type = "too_long"
          /\ call_log = << >>
    /\ (pc \notin {"idle", "prompt", "exited"} /\ Len(strip(symptoms)) > 2000) =>
          /\ pc = "done"
          /\ outcome.kind = "ValueError"
          /\ call_log = << >>

\* _parse_response has been applied to parse_input
ParseCalled == parse_result # ParseFailure("")

NoJsonFound == "Response validation failed: No JSON structure found in response"

FailedToParse == "Failed to parse LLM response as JSON: "

\* C18: a response without an opening brace or without a closing brace, and no
\* other response, fails with "No JSON structure found": json.loads is not
\* reached and no recommendation is returned.
C18_NoJsonFound ==
    ParseCalled =>
        /\ (~Contains(parse_input, "{") \/ ~Contains(parse_input, "}")) =>
              /\ ~parse_result.ok
              /\ parse_result.error = NoJsonFound
              /\ parse_result.data = EmptyDict
        /\ parse_result.error = NoJsonFound =>
              ~Contains(parse_input, "{") \/ ~Contains(parse_input, "}")

C18_Witness ==
    /\ ParseCalled
    /\ Contains(parse_input, "{")
    /\ ~Contains(parse_input, "}")
    /\ parse_result.error = NoJsonFound

\* the part of the stripped response from its first opening brace to its last
\* closing brace
JsonPart(raw) == SubSeq(strip(raw), find(strip(raw), "{"), rfind(strip(raw), "}"))

HasBothBraces(raw) == Contains(raw, "{") /\ Contains(raw, "}")

\* cutting text after one of its closing braces, not the last one, gives a text
\* that parses
HasParsingPrefix(text) ==
    \E j \in 1 .. (Len(text) - 1) :
        /\ CharAt(text, j) = "}"
        /\ json_loads(SubSeq(text, 1, j)).ok

LacksRequiredField(data) ==
    \E f \in {"specialist", "reasoning", "urgency"} : f \notin DOMAIN data

\* the first of specialist, reasoning, urgency that data lacks or holds empty,
\* "" when there is none
FirstMissingOrEmpty(data) ==
    IF "specialist" \notin DOMAIN data \/ data["specialist"] = "" THEN "specialist"
    ELSE IF "reasoning" \notin DOMAIN data \/ data["reasoning"] = "" THEN "reasoning"
    ELSE IF "urgency" \notin DOMAIN data \/ data["urgency"] = "" THEN "urgency"
    ELSE ""

WellFormedRecords ==
    << [text |-> "{\"specialist\":\"Cardiologist\",\"reasoning\":\"chest pain\",\"urgency\":\"High\",\"alternative\":\"Pulmonologist\",\"additional_notes\":\"rest\"}",
        value |-> [specialist |-> "Cardiologist", reasoning |-> "chest pain",
                   urgency |-> "High", alternative |-> "Pulmonologist",
                   additional_notes |-> "rest"]],
       [text |-> "{\"specialist\":\"Cardiologist\",\"reasoning\":\"chest pain\",\"urgency\":\"High\"}",
        value |-> [specialist |-> "Cardiologist", reasoning |-> "chest pain",
                   urgency |-> "High"]],
       [text |-> "{\"specialist\":\"Neurologist\",\"reasoning\":\"headache\",\"urgency\":\"Severe\"}",
        value |-> [specialist |-> "Neurologist", reasoning |-> "headache",
                   urgency |-> "Severe"]],
       [text |-> "{\"specialist\":\"Dentist\",\"reasoning\":\"tooth } ache\",\"urgency\":\"Low\"}",
        value |-> [specialist |-> "Dentist", reasoning |-> "tooth } ache",
                   urgency |-> "Low"]] >>

\* parse_input is the record's text with prose from before and after around it
Surrounds(before, record, after) == parse_input = before \o record.text \o after

\* the result has the record's values, and "" for each optional field the
\* record lacks
HasValuesOf(data, value) ==
    /\ DOMAIN data = FiveFields
    /\ \A f \in DOMAIN value : data[f] = value[f]
    /\ \A f \in {"alternative", "additional_notes"} :
          f \notin DOMAIN value => data[f] = ""

\* C21 as stated: for any prose before and after a well-formed record with the
\* three required fields, normalization returns that record's values, with ""
\* for each optional field the record lacks.
C21_RecordInProse ==
    ParseCalled =>
        \A i \in DOMAIN WellFormedRecords, before \in ResponsePrefixes,
           after \in ResponseSuffixes :
            Surrounds(before, WellFormedRecords[i], after) =>
                /\ parse_result.ok
                /\ HasValuesOf(parse_result.data, WellFormedRecords[i].value)

\* C21 (amended): for prose without an opening brace before and prose without
\* a closing brace after a well-formed record with the three required fields
\* and a valid urgency, normalization returns that record's values, with "" for
\* each optional field the record lacks; every successful result has the five
\* fields.
C21_RecordInBraceFreeProse ==
    ParseCalled =>
        /\ \A i \in DOMAIN WellFormedRecords, before \in ResponsePrefixes,
              after \in ResponseSuffixes :
               (/\ Surrounds(before, WellFormedRecords[i], after)
                /\ ~Contains(before, "{")
                /\ ~Contains(after, "}")
                /\ WellFormedRecords[i].value.urgency \in {"High", "Medium", "Low"}) =>
                   /\ parse_result.ok
                   /\ HasValuesOf(parse_result.data, WellFormedRecords[i].value)
        /\ parse_result.ok => FiveFields \subseteq DOMAIN parse_result.data

C21_Witness ==
    /\ ParseCalled
    /\ parse_input = "Here you go: {\"specialist\":\"Cardiologist\",\"reasoning\":\"chest pain\",\"urgency\":\"High\"}"
    /\ parse_result.ok
    /\ parse_result.data = [specialist |-> "Cardiologist", reasoning |-> "chest pain",
                            urgency |-> "High", alternative |-> "",
                            additional_notes |-> ""]

\* the record that json.loads gives for the part between the braces
ParsedRecord == json_loads(JsonPart(parse_input)).data

\* the part between the braces parses and its urgency is present but is not
\* High, Medium or Low
HasInvalidUrgency ==
    /\ HasBothBraces(parse_input)
    /\ json_loads(JsonPart(parse_input)).ok
    /\ "urgency" \in DOMAIN ParsedRecord
    /\ ParsedRecord["urgency"] \notin {"High", "Medium", "Low"}

\* the result is the record with urgency Medium
ReturnedWithMedium(record) ==
    /\ parse_result.ok
    /\ parse_result.data["urgency"] = "Medium"
    /\ \A f \in (DOMAIN record) \ {"urgency"} : parse_result.data[f] = record[f]

Unclassified(error) ==
    /\ ~ContainsAny(lower(error), retryable_errors)
    /\ ~ContainsAny(lower(error), non_retryable_errors)

\* after the i-th invocation the requester went on to the next attempt: it
\* counted the attempt and did not raise (it waits, calls again, or is
\* interrupted while doing so)
ProceededAfter(i) ==
    \/ i < Len(call_log)
    \/ /\ attempt = i
       /\ requester.kind # "raised"
       /\ pc \in {"attempt", "sleeping", "calling", "handler", "done"}
       /\ pc \in {"handler", "done"} => requester.kind = "KeyboardInterrupt"

\* C24: a failure whose lower-cased text holds neither a retryable nor a
\* non-retryable marker is followed by the next attempt whenever attempts
\* remain; markers are matched whatever the letter case of the error text: a
\* retryable marker in any case is retried, and a non-retryable marker in any
\* case, without a retryable one, ends the requester.
C24_UnclassifiedIsRetried ==
    \A i \in DOMAIN call_log :
        call_log[i].kind = "raised" =>
            /\ (Unclassified(call_log[i].val) /\ i <= max_retries) => ProceededAfter(i)
            /\ (ContainsAny(lower(call_log[i].val), retryable_errors) /\ i <= max_retries) =>
                  ProceededAfter(i)
            /\ (/\ ContainsAny(lower(call_log[i].val), non_retryable_errors)
                /\ ~ContainsAny(lower(call_log[i].val), retryable_errors)) =>
                  /\ i = Len(call_log)
                  /\ requester.kind = "raised"

C24_Witness ==
    /\ Len(call_log) = 4
    /\ call_log[1] = [kind |-> "raised", val |-> "unknown glitch"]
    /\ call_log[2] = [kind |-> "raised", val |-> "Service Unavailable"]
    /\ call_log[3] = [kind |-> "raised", val |-> "unknown glitch"]
    /\ call_log[4] = [kind |-> "raised", val |-> "Invalid API Key"]
    /\ delays = << 1, 2, 4 >>
    /\ requester.kind = "raised"

\* parse_input holds the fenced record between opening and closing
Fenced(opening, closing) == parse_input = opening \o FencedRecord \o closing

FencedRecordValues ==
    [specialist |-> "Cardiologist", reasoning |-> "chest pain", urgency |-> "High",
     alternative |-> "", additional_notes |-> ""]

\* C25 as stated: when the raw text holds a fenced code block, only the inner
\* content of the block is the working text: whatever braces the prose outside
\* the fence holds, the record inside the fence is what normalization returns.
C25_FenceContentIsWorkingText ==
    ParseCalled =>
        \A opening \in FenceOpenings, closing \in FenceClosings :
            Fenced(opening, closing) =>
                /\ parse_result.ok
                /\ parse_result.data = FencedRecordValues

\* C25 (amended): a fenced code block is not looked for: with a fence too, the
\* parsed part runs from the first opening brace to the last closing brace of
\* the whole text.  The record inside the fence is returned when the text
\* before the fence holds no opening brace and the text after it no closing
\* brace; otherwise the braces outside the fence are part of what is parsed,
\* and normalization fails with "Failed to parse LLM response as JSON".
C25_FenceIsNotLookedFor ==
    ParseCalled =>
        \A opening \in FenceOpenings, closing \in FenceClosings :
            Fenced(opening, closing) =>
                IF ~Contains(opening, "{") /\ ~Contains(closing, "}")
                THEN /\ parse_result.ok
                     /\ parse_result.data = FencedRecordValues
                ELSE /\ ~parse_result.ok
                     /\ SubSeq(parse_result.error, 1, Len(FailedToParse)) = FailedToParse

C25_Witness ==
    /\ ParseCalled
    /\ parse_input = "Use {braces} like this:\n~~~json\n{\"specialist\":\"Cardiologist\",\"reasoning\":\"chest pain\",\"urgency\":\"High\"}\n~~~"
    /\ ~parse_result.ok
    /\ parse_result.error =
          FailedToParse \o "Expecting property name enclosed in double quotes: line 1 column 2 (char 1)"

\* C27 as stated: a description that main's get_user_input accepted (the
\* cleaned input of _validate_symptom_input) is accepted by process_symptoms'
\* own validator too: process_symptoms raises no ValueError for it and the
\* requester starts.
C27_AcceptedAtPromptIsRequested ==
    (entry = "cli" /\ pc \notin {"prompt", "exited", "idle"}) =>
        /\ _validate_symptom_input(user_input).valid
        /\ symptoms = _validate_symptom_input(user_input).cleaned_input
        /\ _validate_and_sanitize_input(symptoms).ok
        /\ outcome.kind # "ValueError"
        /\ requester.kind # "none"

\* the trimmed line is quit, exit, q or stop in any letter case
IsQuitCommand(line) == lower(line) \in {"quit", "exit", "q", "stop"}

\* the step in which a quit command is read at a symptom prompt: the process
\* ends with status 0, nothing is validated and nothing of a consultation
\* changes
QuitCommandExits ==
    (pc \in {"prompt", "ui_prompt"} /\ user_input' # user_input /\ IsQuitCommand(user_input')) =>
        /\ pc' = "exited"
        /\ exit_status' = << 0 >>
        /\ validation_result' = validation_result
        /\ ui_result' = ui_result
        /\ attempt_count' = attempt_count
        /\ call_log' = call_log
        /\ requester' = requester
        /\ outcome' = outcome
        /\ history' = history

\* C26: a quit command (quit, exit, q, stop, trimmed, in any letter case) at
\* the symptom prompt of main.get_user_input or ui.get_user_input ends the
\* process with exit status 0; the input is not validated, no LLM call is made
\* for it, and after the exit nothing happens: no further prompt.
C26_QuitEndsProcess ==
    [][QuitCommandExits /\ (pc = "exited" => pc' = "exited" /\ user_input' = user_input)]_vars

C26_Witness ==
    /\ pc = "exited"
    /\ entry = "cli"
    /\ user_input = "EXIT"
    /\ exit_status = << 0 >>
    /\ history = << "failed", "succeeded" >>
    /\ validation_result.valid

\* main has displayed the error of a consultation that failed because the
\* requester gave up on an error of the LLM call
RequestFailureDisplayed ==
    /\ pc = "ask_continue"
    /\ history # << >>
    /\ history[Len(history)] = "failed"
    /\ requester.kind = "raised"
    /\ outcome.kind = "Exception"

\* the text of the error the LLM call raised last
UnderlyingError == call_log[Len(call_log)].val

\* C28 as stated: when the error that made the consultation fail carries a
\* network, authentication or rate-limit marker, the error process_symptoms
\* raises instead is put into the same category as the underlying error would
\* be, by main._categorize_error and by error_handling.categorize_error, and
\* never into "unknown".
C28_ReraisedKeepsCategory ==
    (/\ RequestFailureDisplayed
     /\ _categorize_error(UnderlyingError) \in {"network", "auth", "rate_limit"}) =>
        /\ error_category = _categorize_error(UnderlyingError)
        /\ categorize_error(outcome.msg) = categorize_error(UnderlyingError)
        /\ error_category # "unknown"

\* how many of the consultations of h failed after the last one that succeeded
\* (all that failed when none succeeded); interrupted ones do not count
RECURSIVE FailedSinceSuccess(_)
FailedSinceSuccess(h) ==
    IF h = << >> THEN 0
    ELSE IF h[Len(h)] = "succeeded" THEN 0
    ELSE IF h[Len(h)] = "failed" THEN 1 + FailedSinceSuccess(SubSeq(h, 1, Len(h) - 1))
    ELSE FailedSinceSuccess(SubSeq(h, 1, Len(h) - 1))

\* C29: main._error_count, the attempt number shown with an error, is the
\* number of consultations that failed since the most recent successful one:
\* a failed consultation adds 1, a successful one resets it to 0, an interrupted
\* one leaves it unchanged (it does not exist before the first failure).
C29_ErrorCountIsFailuresSinceSuccess ==
    /\ error_count = << >> => \A i \in DOMAIN history : history[i] # "failed"
    /\ error_count # << >> => error_count = << FailedSinceSuccess(history) >>
    /\ (pc = "ask_continue" /\ history[Len(history)] = "failed") =>
           /\ error_count # << >>
           /\ error_count[1] >= 1

C29_Witness ==
    /\ pc = "ask_continue"
    /\ history = << "failed", "succeeded", "failed" >>
    /\ error_count = << 1 >>
    /\ outcome.kind = "ValueError"

\* C30 as stated: get_user_input counts the inputs rejected in a row, whatever
\* the reason of the rejection: attempt_count is the number of inputs rejected
\* in a row since the examples were last shown, the third one shows the
\* examples and resets the counter, and the counter never exceeds 3.
C30_ThirdRejectionShowsExamples ==
    entry = "cli" =>
        /\ attempt_count = rejected_run
        /\ rejected_run < max_attempts
        /\ attempt_count <= 3

====
